---- MODULE Spec2Model ----
(***************************************************************************)
(* packet_captor_sakura: the flow aggregator of the data generator         *)
(* (data_generator/src/flow_aggregator.rs).                                *)
(*                                                                         *)
(* Timestamps are u64 nanoseconds in the program; here one time unit       *)
(* stands for one millisecond and all values stay far below 2^64, so the   *)
(* u64 additions of load_packets never wrap.                               *)
(***************************************************************************)
EXTENDS Integers, Sequences, FiniteSets, TLC

VARIABLES
    connection_map,        \* FlowAggregator.connection_map: PacketKey -> Seq(FlowPeriod)
    grace_period_before,   \* FlowAggregator.grace_period_before
    grace_period_after,    \* FlowAggregator.grace_period_after
    data,                  \* FlowAggregator.data: uid -> Seq(StrippedPacket)
    packets,               \* argument of the last load_packets call
    flow_ids,              \* flow_id computed for each packet of the last call
    candidates,            \* the possibilities vector of each packet of the last call
    remaining,             \* packets the caller has still to hand to load_packets
    warnings,              \* the warn! log lines, in order
    ingested,              \* number of packets passed to load_packets so far
    key_args,              \* arguments of the last PacketKey::new call
    key_fwd,               \* PacketKey::new(a, b, p, pa, pb)
    key_rev,               \* PacketKey::new(b, a, p, pb, pa)
    dir_ports,             \* (src_port, dst_port) of the last infer_multiple call
    dir_methods,           \* the methods slice of the last infer_multiple call
    direction,             \* its result
    feat_pc,               \* position of FlowData::load in the feature pipeline
    flow_packets,          \* the stripped packets of the flow being processed
    packet_features,       \* PacketFeatures::from_stripped_packets of that flow
    pending_flows,         \* FlowFeatures the fold has still to consume
    folded,                \* FlowFeatures the fold has consumed, in order
    flow_acc,              \* accumulator of the fold
    normalized,            \* NormalizedFlowFeatures of the accumulator
    target_endian,         \* byte order of the machine the reader runs on
    pcap_file,             \* the capture file
    pcap_pc,               \* position of the caller of the reader
    reader,                \* the PcapReader, once constructed
    is_flipped,            \* the is_flipped local of PcapReader::from_reader
    pcap_pos,              \* number of records the reader has consumed
    records,               \* records the iterator has yielded, in order
    capture_result,        \* what the capture was turned into
    manifest,              \* the lines of report.json, in file order
    work,                  \* Dataset::load: the work vector after the sort
    results,               \* what FlowData::load made of each item of work
    run_pc,                \* position of run() and main()
    classes,               \* Dataset.classes: class -> Seq(FlowData)
    output,                \* the lines written to each class file
    exit_status,           \* exit status of the process, once it has ended
    capture_records,       \* the records a PcapReader yields, by what they hold
    parse_pos,             \* records load_from_pcap has consumed
    parsed_packets,        \* packets load_from_pcap has yielded, in order
    payload,               \* the bytes handed to shannon_entropy
    entropy,               \* its result
    wq_work,               \* WorkQueue.work: work type -> BinaryHeap of work
    wq_clients,            \* WorkQueue.clients: client id -> preferred work types
    wq_cur_client_id,      \* WorkQueue.cur_client_id
    wq_request,            \* client id of the last request_work call
    wq_response,           \* its result
    wq_before,             \* WorkQueue.work before that call
    tcp_pc,                \* tcpdump controller: where main stands
    tcp_tcpdump,           \* the Option<Child> main and handle_connection pass on
    tcp_running,           \* the tcpdump children spawned and not ended
    tcp_spawned,           \* number of children spawned so far
    tcp_request,           \* the request buffer of handle_connection
    tcp_stream,            \* the connection: open, or closed by the client
    tcp_connections,       \* number of connections accepted so far
    tcp_last,              \* what the last turn of the command loop did
    svc_urls,              \* number of urls the service made its work from
    svc_inflight,          \* the requests being handled, by request number
    svc_served,            \* number of requests received so far
    svc_report,            \* the lines of the report file
    svc_shutdown,          \* the shutdown flag, with the circumstances of its store
    svc_handed,            \* how often each work item was handed out
    svc_requeued,          \* how often each work item was put back by a report
    svc_last,              \* the last /work/report handled, with the state before it
    conn_log,              \* the lines of conn.log in the scratch directory
    conn_pc,               \* position of FlowData::load between lines 205 and 223
    scratch_dir,           \* whether the scratch directory exists
    conn_reads             \* the lines read from conn.log, each with the state of the directory

aggVars == <<connection_map, grace_period_before, grace_period_after, data,
             packets, flow_ids, candidates, remaining, warnings, ingested>>
keyVars == <<key_args, key_fwd, key_rev>>
dirVars == <<dir_ports, dir_methods, direction>>
featVars == <<feat_pc, flow_packets, packet_features, pending_flows, folded,
              flow_acc, normalized>>
pcapVars == <<target_endian, pcap_file, pcap_pc, reader, is_flipped, pcap_pos,
              records, capture_result>>
batchVars == <<manifest, work, results, run_pc, classes, output, exit_status>>
parseVars == <<capture_records, parse_pos, parsed_packets>>
entropyVars == <<payload, entropy>>
queueVars == <<wq_work, wq_clients, wq_cur_client_id, wq_request, wq_response, wq_before>>
tcpVars == <<tcp_pc, tcp_tcpdump, tcp_running, tcp_spawned, tcp_request, tcp_stream,
             tcp_connections, tcp_last>>
svcVars == <<svc_urls, svc_inflight, svc_served, svc_report, svc_shutdown, svc_handed,
             svc_requeued, svc_last>>
connVars == <<conn_log, conn_pc, scratch_dir, conn_reads>>
\* The variables of the tcpdump controller, of the work-queue service and
\* of the reading of conn.log
lateVars == <<tcpVars, svcVars, connVars>>
\* The variables of the feature-extraction tool's batch run, of the record
\* parser, of the entropy function and of the work queue
restVars == <<batchVars, parseVars, entropyVars, queueVars, lateVars>>
vars == <<connection_map, grace_period_before, grace_period_after, data,
          packets, flow_ids, candidates, remaining, warnings, ingested,
          key_args, key_fwd, key_rev,
          dir_ports, dir_methods, direction,
          feat_pc, flow_packets, packet_features, pending_flows, folded,
          flow_acc, normalized,
          target_endian, pcap_file, pcap_pc, reader, is_flipped, pcap_pos,
          records, capture_result,
          manifest, work, results, run_pc, classes, output, exit_status,
          capture_records, parse_pos, parsed_packets,
          payload, entropy,
          wq_work, wq_clients, wq_cur_client_id, wq_request, wq_response, wq_before,
          tcp_pc, tcp_tcpdump, tcp_running, tcp_spawned, tcp_request, tcp_stream,
          tcp_connections, tcp_last,
          svc_urls, svc_inflight, svc_served, svc_report, svc_shutdown, svc_handed,
          svc_requeued, svc_last,
          conn_log, conn_pc, scratch_dir, conn_reads>>

(***************************************************************************)
(* Bounds                                                                  *)
(***************************************************************************)
\* Largest packet timestamp
MaxTimestamp == 4
\* Total number of packets handed to load_packets over all calls, for the
\* aggregation of a capture
MaxPackets == 2
\* The same, where packets are matched against every connection log
MaxMatchedPackets == 1

\* Option::None for a flow id
NoFlow == "None"
\* uid of the i-th record of the connection log
Uids == <<"CA", "CB", "CC">>

\* Endpoints (orig_ip, resp_ip, protocol, orig_port, resp_port) of connections:
\* a client on a high port talking to a low server port, and a connection
\* whose two ports are equal
ConnectionEndpoints == {<<1, 2, 6, 2, 1>>, <<1, 2, 6, 2, 2>>}
\* Endpoints (src_ip, dst_ip, protocol, src_port, dst_port) of packets: both
\* directions of the connections above
PacketEndpoints == {<<1, 2, 6, 2, 1>>, <<2, 1, 6, 1, 2>>,
                    <<1, 2, 6, 2, 2>>, <<2, 1, 6, 2, 2>>}
Starts == 0..3
Durations == 0..1
\* (grace_period_before, grace_period_after)
Graces == {<<2, 2>>, <<1, 3>>}

\* Arguments of PacketKey::new
Ips == {1, 2, 3}
Protocols == {6, 17}
Ports == {1, 2, 3}

(***************************************************************************)
(* PacketKey                                                               *)
(***************************************************************************)
\* PacketKey::new with the port comparison inverted on ties
PacketKeyNewStrict(ip_a, ip_b, trans_protocol, port_a, port_b) ==
    IF port_a < port_b
    THEN [ip_a |-> ip_a, ip_b |-> ip_b, trans_protocol |-> trans_protocol,
          port_a |-> port_a, port_b |-> port_b]
    ELSE [ip_a |-> ip_b, ip_b |-> ip_a, trans_protocol |-> trans_protocol,
          port_a |-> port_b, port_b |-> port_a]

PacketKeyNew(ip_a, ip_b, trans_protocol, port_a, port_b) ==
    IF port_a <= port_b
    THEN [ip_a |-> ip_a, ip_b |-> ip_b, trans_protocol |-> trans_protocol,
          port_a |-> port_a, port_b |-> port_b]
    ELSE [ip_a |-> ip_b, ip_b |-> ip_a, trans_protocol |-> trans_protocol,
          port_a |-> port_b, port_b |-> port_a]

\* From<&Packet> with source and destination taken the other way round
PacketKeyFromPacketReversed(packet) ==
    PacketKeyNew(packet.dst_ip, packet.src_ip, packet.trans_protocol,
                 packet.dst_port, packet.src_port)

PacketKeyFromPacket(packet) ==
    PacketKeyNew(packet.src_ip, packet.dst_ip, packet.trans_protocol,
                 packet.src_port, packet.dst_port)

PacketKeyFromConnection(connection) ==
    PacketKeyNew(connection.orig_ip, connection.resp_ip, connection.trans_protocol,
                 connection.orig_port, connection.resp_port)

FlowPeriodFrom(connection) ==
    [start |-> connection.timestamp,
     end   |-> connection.timestamp + connection.duration,
     id    |-> connection.uid]

\* Packet::strip; id is the packet's position in the input, kept to tell
\* packets apart
Strip(packet) ==
    [trans_protocol |-> packet.trans_protocol,
     timestamp      |-> packet.timestamp,
     src_port       |-> packet.src_port,
     dst_port       |-> packet.dst_port,
     id             |-> packet.id]

(***************************************************************************)
(* FlowAggregator::new                                                     *)
(***************************************************************************)
\* itertools into_group_map: the periods of each key, in log order
IntoGroupMap(connections) ==
    LET keys == {PacketKeyFromConnection(connections[i]) : i \in 1..Len(connections)}
    IN  [k \in keys |->
            LET sel == SelectSeq(connections,
                                 LAMBDA c : PacketKeyFromConnection(c) = k)
            IN  [i \in 1..Len(sel) |-> FlowPeriodFrom(sel[i])]]

Connection(e, start, duration, uid) ==
    [orig_ip |-> e[1], resp_ip |-> e[2], trans_protocol |-> e[3],
     orig_port |-> e[4], resp_port |-> e[5],
     timestamp |-> start, duration |-> duration, uid |-> uid]

\* The connection logs the aggregator is built from
ConnectionLogs ==
    UNION {
        {[i \in 1..n |-> Connection(f[i][1], f[i][2], f[i][3], Uids[i])] :
            f \in [1..n -> ConnectionEndpoints \X Starts \X Durations]}
        : n \in 0..2}

\* The connection logs of a capture: two connections, of the same or of
\* different keys, that last one time unit and start at 0 and at 2
CaptureLogs ==
    {c \in ConnectionLogs :
        /\ Len(c) = 2
        /\ c[1].timestamp = 0 /\ c[1].duration = 1
        /\ c[2].timestamp = 2 /\ c[2].duration = 1}

Packet(e, timestamp, id) ==
    [src_ip |-> e[1], dst_ip |-> e[2], trans_protocol |-> e[3],
     src_port |-> e[4], dst_port |-> e[5], timestamp |-> timestamp, id |-> id]

(***************************************************************************)
(* FlowAggregator::load_packets                                            *)
(***************************************************************************)
After(delta) == [tag |-> "After", delta |-> delta]
Before(delta) == [tag |-> "Before", delta |-> delta]

\* The first branch with the bounds of the period excluded
ExactMatchStrict(packet, period) ==
    packet.timestamp > period.start /\ packet.timestamp < period.end

\* The packet's timestamp lies in the period (first branch of the fold)
ExactMatch(packet, period) ==
    packet.timestamp >= period.start /\ packet.timestamp <= period.end

\* The second branch with the end of the grace period included
AfterBranchInclusive(packet, period) ==
    packet.timestamp <= period.end + grace_period_after

\* Second branch of the fold
AfterBranch(packet, period) ==
    packet.timestamp < period.end + grace_period_after

\* Third branch of the fold
BeforeBranch(packet, period) ==
    packet.timestamp + grace_period_before > period.start

\* Ord for TimeDifference with Before preferred to After
TimeDifferenceCmpBeforeFirst(mine, theirs) ==
    CASE mine.tag = "After" /\ theirs.tag = "After" ->
            IF mine.delta < theirs.delta THEN "Less"
            ELSE IF mine.delta = theirs.delta THEN "Equal" ELSE "Greater"
      [] mine.tag = "Before" /\ theirs.tag = "Before" ->
            IF mine.delta < theirs.delta THEN "Less"
            ELSE IF mine.delta = theirs.delta THEN "Equal" ELSE "Greater"
      [] mine.tag = "After" /\ theirs.tag = "Before" -> "Greater"
      [] mine.tag = "Before" /\ theirs.tag = "After" -> "Less"

\* Ord for TimeDifference (the derived PartialOrd, variant order first and
\* then the delta, gives the same order)
TimeDifferenceCmp(mine, theirs) ==
    CASE mine.tag = "After" /\ theirs.tag = "After" ->
            IF mine.delta < theirs.delta THEN "Less"
            ELSE IF mine.delta = theirs.delta THEN "Equal" ELSE "Greater"
      [] mine.tag = "Before" /\ theirs.tag = "Before" ->
            IF mine.delta < theirs.delta THEN "Less"
            ELSE IF mine.delta = theirs.delta THEN "Equal" ELSE "Greater"
      [] mine.tag = "After" /\ theirs.tag = "Before" -> "Less"
      [] mine.tag = "Before" /\ theirs.tag = "After" -> "Greater"

\* The try_fold over the periods of the packet's key, from period i on:
\* Err(id) at the first exact match, Ok(possibilities) otherwise
RECURSIVE TryFold(_, _, _, _)
TryFold(periods, i, possibilities, packet) ==
    IF i > Len(periods)
    THEN [ok |-> TRUE, possibilities |-> possibilities]
    ELSE LET period == periods[i]
         IN  IF ExactMatch(packet, period)
             THEN [ok |-> FALSE, id |-> period.id]
             ELSE IF AfterBranch(packet, period)
             THEN TryFold(periods, i + 1,
                          Append(possibilities,
                                 [id |-> period.id,
                                  time_difference |->
                                      After((period.end + grace_period_after)
                                            - packet.timestamp)]),
                          packet)
             ELSE IF BeforeBranch(packet, period)
             THEN TryFold(periods, i + 1,
                          Append(possibilities,
                                 [id |-> period.id,
                                  time_difference |->
                                      Before((packet.timestamp + grace_period_before)
                                             - period.start)]),
                          packet)
             ELSE TryFold(periods, i + 1, possibilities, packet)

\* first() without the sort
FirstUnsorted(possibilities) ==
    IF possibilities = <<>> THEN {NoFlow} ELSE {possibilities[1].id}

\* sort_unstable_by_key followed by first(): any possibility that no other
\* possibility precedes (the sort is unstable, equal keys may come in any
\* order); None for the empty vector
FirstSorted(possibilities) ==
    IF possibilities = <<>>
    THEN {NoFlow}
    ELSE {possibilities[i].id : i \in
            {j \in 1..Len(possibilities) :
                \A k \in 1..Len(possibilities) :
                    TimeDifferenceCmp(possibilities[k].time_difference,
                                      possibilities[j].time_difference) # "Less"}}

\* The values flow_id can take for a packet whose key is in the map
FlowId(packet) ==
    LET r == TryFold(connection_map[PacketKeyFromPacket(packet)], 1, <<>>, packet)
    IN  IF r.ok THEN FirstSorted(r.possibilities) ELSE {r.id}

KeyKnown(packet) == PacketKeyFromPacket(packet) \in DOMAIN connection_map

\* The values of flow_id over one packet of the loop; None also stands for
\* the packet whose key is not in the map
Outcome(packet) ==
    IF KeyKnown(packet) THEN FlowId(packet) ELSE {NoFlow}

\* The possibilities vector handed to the sort for the packet; empty when the
\* fold is not run or short-circuits
Possibilities(packet) ==
    IF KeyKnown(packet)
    THEN LET r == TryFold(connection_map[PacketKeyFromPacket(packet)], 1, <<>>, packet)
         IN  IF r.ok THEN r.possibilities ELSE <<>>
    ELSE <<>>

\* data.insert(flow_id, vec![packet.strip()]): the bucket is replaced
PushReplace(d, flow_id, packet) ==
    [u \in DOMAIN d \cup {flow_id} |->
        IF u = flow_id THEN <<Strip(packet)>> ELSE d[u]]

\* data.entry(flow_id).or_insert_with(|| vec![]).push(packet.strip())
Push(d, flow_id, packet) ==
    IF flow_id \in DOMAIN d
    THEN [d EXCEPT ![flow_id] = Append(@, Strip(packet))]
    ELSE [u \in DOMAIN d \cup {flow_id} |->
            IF u = flow_id THEN <<Strip(packet)>> ELSE d[u]]

\* The body of the for loop over the packets i..Len(batch)
RECURSIVE Ingest(_, _, _, _)
Ingest(d, batch, ids, i) ==
    IF i > Len(batch) THEN d
    ELSE Ingest(IF ids[i] # NoFlow THEN Push(d, ids[i], batch[i]) ELSE d,
                batch, ids, i + 1)

\* The warn! lines of the loop over the packets i..Len(batch)
RECURSIVE Warnings(_, _, _)
Warnings(batch, ids, i) ==
    IF i > Len(batch) THEN <<>>
    ELSE (IF ~KeyKnown(batch[i]) THEN <<[kind |-> "key", id |-> batch[i].id]>>
          ELSE IF ids[i] = NoFlow THEN <<[kind |-> "timestamp", id |-> batch[i].id]>>
          ELSE <<>>)
         \o Warnings(batch, ids, i + 1)

IsSorted(bucket) ==
    \A i \in 1..Len(bucket) - 1 : bucket[i].timestamp <= bucket[i + 1].timestamp

\* The bucket left as it is
SortNone(bucket) == {bucket}

\* The results sort_unstable_by_key(|packet| packet.timestamp) can leave in a
\* bucket: the orderings of its packets by ascending timestamp
SortUnstable(bucket) ==
    LET n == Len(bucket)
        perms == {f \in [1..n -> 1..n] : \A i, j \in 1..n : i # j => f[i] # f[j]}
    IN  {s \in {[i \in 1..n |-> bucket[f[i]]] : f \in perms} : IsSorted(s)}

\* The final loop: every bucket sorted
SortAll(d) ==
    {s \in [DOMAIN d -> UNION {SortUnstable(d[u]) : u \in DOMAIN d}] :
        \A u \in DOMAIN d : s[u] \in SortUnstable(d[u])}

LoadPackets ==
    /\ remaining > 0
    /\ \E n \in 1..remaining :
       \E batch \in [1..n -> PacketEndpoints \X (0..MaxTimestamp)] :
          LET pkts == [i \in 1..n |-> Packet(batch[i][1], batch[i][2], ingested + i)]
          IN  \E ids \in {f \in [1..n -> {Uids[i] : i \in DOMAIN Uids} \cup {NoFlow}] :
                            \A i \in 1..n : f[i] \in Outcome(pkts[i])} :
              \E sorted \in SortAll(Ingest(data, pkts, ids, 1)) :
                 /\ data' = sorted
                 /\ packets' = pkts
                 /\ flow_ids' = ids
                 /\ candidates' = [i \in 1..n |-> Possibilities(pkts[i])]
                 /\ remaining' = remaining - n
                 /\ warnings' = warnings \o Warnings(pkts, ids, 1)
                 /\ ingested' = ingested + n
    /\ UNCHANGED <<connection_map, grace_period_before, grace_period_after>>
    /\ UNCHANGED <<keyVars, dirVars, featVars, pcapVars, restVars>>

\* FlowAggregator::new over a connection log and the two grace periods
New(logs) ==
    /\ \E connections \in logs : connection_map = IntoGroupMap(connections)
    /\ \E g \in Graces : grace_period_before = g[1] /\ grace_period_after = g[2]
    /\ data = <<>>
    /\ packets = <<>>
    /\ flow_ids = <<>>
    /\ candidates = <<>>
    /\ warnings = <<>>
    /\ ingested = 0

NoKeyCall ==
    /\ key_args = <<>>
    /\ key_fwd = NoFlow
    /\ key_rev = NoFlow

NoDirectionCall ==
    /\ dir_ports = <<>>
    /\ dir_methods = <<>>
    /\ direction = NoFlow

NoFeatures ==
    /\ feat_pc = "idle"
    /\ flow_packets = <<>>
    /\ packet_features = <<>>
    /\ pending_flows = <<>>
    /\ folded = <<>>
    /\ flow_acc = NoFlow
    /\ normalized = NoFlow

NoCapture ==
    /\ target_endian = "little"
    /\ pcap_file = NoFlow
    /\ pcap_pc = "idle"
    /\ reader = <<>>
    /\ is_flipped = FALSE
    /\ pcap_pos = 0
    /\ records = <<>>
    /\ capture_result = NoFlow

NoBatch ==
    /\ manifest = <<>>
    /\ work = <<>>
    /\ results = <<>>
    /\ run_pc = "idle"
    /\ classes = <<>>
    /\ output = <<>>
    /\ exit_status = <<>>

NoParse ==
    /\ capture_records = <<>>
    /\ parse_pos = 0
    /\ parsed_packets = <<>>

NoEntropyCall ==
    /\ payload = <<>>
    /\ entropy = <<>>

NoQueue ==
    /\ wq_work = <<>>
    /\ wq_clients = <<>>
    /\ wq_cur_client_id = 0
    /\ wq_request = 0
    /\ wq_response = <<>>
    /\ wq_before = <<>>

NoTcpdump ==
    /\ tcp_pc = "idle"
    /\ tcp_tcpdump = <<>>
    /\ tcp_running = {}
    /\ tcp_spawned = 0
    /\ tcp_request = 0
    /\ tcp_stream = "none"
    /\ tcp_connections = 0
    /\ tcp_last = <<>>

NoService ==
    /\ svc_urls = 0
    /\ svc_inflight = <<>>
    /\ svc_served = 0
    /\ svc_report = <<>>
    /\ svc_shutdown = <<>>
    /\ svc_handed = <<>>
    /\ svc_requeued = <<>>
    /\ svc_last = <<>>

NoConnLog ==
    /\ conn_log = <<>>
    /\ conn_pc = "idle"
    /\ scratch_dir = "none"
    /\ conn_reads = <<>>

NoLate == NoTcpdump /\ NoService /\ NoConnLog

NoRest == NoBatch /\ NoParse /\ NoEntropyCall /\ NoQueue /\ NoLate

\* The aggregator alone: nothing else of the program has run
OnlyAggregator == NoKeyCall /\ NoDirectionCall /\ NoFeatures /\ NoCapture /\ NoRest

\* One packet at a time against every connection log
Init == New(ConnectionLogs) /\ remaining = MaxMatchedPackets /\ OnlyAggregator

Next == LoadPackets

Spec == Init /\ [][Next]_vars

\* A capture of several packets, loaded in one or in several calls
InitCapture == New(CaptureLogs) /\ remaining = MaxPackets /\ OnlyAggregator

NextCapture == LoadPackets

SpecCapture == InitCapture /\ [][NextCapture]_vars

(***************************************************************************)
(* Properties of load_packets, over the packets of the last call           *)
(***************************************************************************)
\* The periods recorded for the key of a packet
PeriodsOf(packet) ==
    IF PacketKeyFromPacket(packet) \in DOMAIN connection_map
    THEN connection_map[PacketKeyFromPacket(packet)]
    ELSE <<>>

InWindow(t, period) == period.start <= t /\ t <= period.end

NoExactMatch(packet) ==
    \A j \in DOMAIN PeriodsOf(packet) : ~InWindow(packet.timestamp, PeriodsOf(packet)[j])

\* The ids of the packets held in a bucket
IdsIn(bucket) == {bucket[k].id : k \in DOMAIN bucket}

InNoBucket(packet) == \A u \in DOMAIN data : packet.id \notin IdsIn(data[u])

InBucket(packet, uid) ==
    /\ uid \in DOMAIN data
    /\ packet.id \in IdsIn(data[uid])
    /\ \A u \in DOMAIN data : u # uid => packet.id \notin IdsIn(data[u])

\* t is outside the grace-extended window of the period
OutsideGrace(t, period) ==
    \/ t + grace_period_before <= period.start
    \/ t >= period.end + grace_period_after

\* C1: a packet whose key is in the connection map and whose timestamp is
\* outside the grace-extended window of every period of that key gets no
\* candidate, is dropped and appears in no bucket.
C1_OutsideGraceDropped ==
    \A i \in DOMAIN packets :
        (/\ PeriodsOf(packets[i]) # <<>>
         /\ \A j \in DOMAIN PeriodsOf(packets[i]) :
               OutsideGrace(packets[i].timestamp, PeriodsOf(packets[i])[j]))
        => /\ candidates[i] = <<>>
           /\ flow_ids[i] = NoFlow
           /\ InNoBucket(packets[i])

\* C2: a packet whose timestamp lies in the [start, end] window of exactly one
\* period of its key is assigned to that period's uid, wherever the period
\* stands in the list and whatever the earlier periods contributed.
C2_ExactMatchWins ==
    \A i \in DOMAIN packets :
        \A j \in DOMAIN PeriodsOf(packets[i]) :
            (/\ InWindow(packets[i].timestamp, PeriodsOf(packets[i])[j])
             /\ \A k \in DOMAIN PeriodsOf(packets[i]) :
                   k # j => ~InWindow(packets[i].timestamp, PeriodsOf(packets[i])[k]))
            => /\ flow_ids[i] = PeriodsOf(packets[i])[j].id
               /\ InBucket(packets[i], PeriodsOf(packets[i])[j].id)

\* C2 witness: the only exact match is the second period of the list, after a
\* first period that the packet is late for within the grace period
C2_Witness ==
    \E i \in DOMAIN packets :
        /\ Len(PeriodsOf(packets[i])) = 2
        /\ InWindow(packets[i].timestamp, PeriodsOf(packets[i])[2])
        /\ PeriodsOf(packets[i])[1].end < packets[i].timestamp
        /\ packets[i].timestamp < PeriodsOf(packets[i])[1].end + grace_period_after
        /\ flow_ids[i] = PeriodsOf(packets[i])[2].id

\* The packet is recorded as an After candidate of the period
AfterCandidate(i, period) ==
    \E c \in DOMAIN candidates[i] :
        /\ candidates[i][c].id = period.id
        /\ candidates[i][c].time_difference.tag = "After"
        /\ candidates[i][c].time_difference.delta =
              (period.end + grace_period_after) - packets[i].timestamp

\* The periods of packet i's key with end < t < end + grace_after
LatePeriods(i) ==
    {PeriodsOf(packets[i])[j] : j \in
        {k \in DOMAIN PeriodsOf(packets[i]) :
            /\ PeriodsOf(packets[i])[k].end < packets[i].timestamp
            /\ packets[i].timestamp < PeriodsOf(packets[i])[k].end + grace_period_after}}

\* The periods of packet i's key with end < t <= end + grace_after
LatePeriodsInclusive(i) ==
    {PeriodsOf(packets[i])[j] : j \in
        {k \in DOMAIN PeriodsOf(packets[i]) :
            /\ PeriodsOf(packets[i])[k].end < packets[i].timestamp
            /\ packets[i].timestamp <= PeriodsOf(packets[i])[k].end + grace_period_after}}

\* C3 as stated: for every period with end < t <= end + grace_after the packet
\* is an After candidate, and without an exact match it is bound to such a
\* period.
C3_AfterInclusive ==
    \A i \in DOMAIN packets :
        (NoExactMatch(packets[i]) /\ LatePeriodsInclusive(i) # {})
        => /\ \A period \in LatePeriodsInclusive(i) : AfterCandidate(i, period)
           /\ flow_ids[i] \in {period.id : period \in LatePeriodsInclusive(i)}

\* C3 (amended): for every period with end < t < end + grace_after, the
\* boundary t = end + grace_after excluded, the packet is an After candidate,
\* and without an exact match it is bound to such a period, in preference to
\* every period it is early for (t < start) and to every period whose grace
\* it has outlived (t >= end + grace_after).
C3_AfterExclusive ==
    \A i \in DOMAIN packets :
        (NoExactMatch(packets[i]) /\ LatePeriods(i) # {})
        => /\ \A period \in LatePeriods(i) : AfterCandidate(i, period)
           /\ flow_ids[i] \in {period.id : period \in LatePeriods(i)}
           /\ \A j \in DOMAIN PeriodsOf(packets[i]) :
                 packets[i].timestamp = PeriodsOf(packets[i])[j].end + grace_period_after
                 => ~AfterCandidate(i, PeriodsOf(packets[i])[j])

\* C3 witness: the packet is late for one period within the grace period and
\* slightly early for another one, and is bound to the first
C3_Witness ==
    \E i \in DOMAIN packets :
        /\ NoExactMatch(packets[i])
        /\ Len(PeriodsOf(packets[i])) = 2
        /\ \E late \in LatePeriods(i) :
           \E j \in DOMAIN PeriodsOf(packets[i]) :
              /\ PeriodsOf(packets[i])[j].start - grace_period_before < packets[i].timestamp
              /\ packets[i].timestamp < PeriodsOf(packets[i])[j].start
              /\ flow_ids[i] = late.id
              /\ flow_ids[i] # PeriodsOf(packets[i])[j].id

\* One time unit is one millisecond: e1 + 1ms is p1.end + 1, s2 - 1ms is
\* p2.start - 1.
\* Two periods of one key, the first ending before the second starts, whose
\* grace windows (e1, e1 + grace_after) and (s2 - grace_before, s2) overlap
GraceOverlap(p1, p2) ==
    /\ p1.end < p2.start
    /\ p1.end + grace_period_after > p2.start - grace_period_before

\* C4 as stated: with two such periods, the packet at e1 + 1ms is bound to the
\* earlier period and the packet at s2 - 1ms to the later one (two different
\* packets, both in the gap between the two periods).
C4_GraceTie ==
    \A i \in DOMAIN packets :
        \A j, k \in DOMAIN PeriodsOf(packets[i]) :
            LET p1 == PeriodsOf(packets[i])[j]
                p2 == PeriodsOf(packets[i])[k]
            IN  (/\ GraceOverlap(p1, p2)
                 /\ p1.end + 1 < p2.start - 1
                 /\ p1.end < packets[i].timestamp
                 /\ packets[i].timestamp < p2.start)
                => /\ packets[i].timestamp = p1.end + 1 => flow_ids[i] = p1.id
                   /\ packets[i].timestamp = p2.start - 1 => flow_ids[i] = p2.id

\* C4 (amended): with exactly two such periods for the key, the packet at
\* e1 + 1ms is bound to the earlier period when it is still before s2 and
\* grace_after exceeds 1ms; the packet at s2 - 1ms is bound to the later
\* period only when P1's grace has run out (t >= e1 + grace_after), and to the
\* earlier period when e1 < t < e1 + grace_after.
C4_GraceTieAmended ==
    \A i \in DOMAIN packets :
        \A j, k \in DOMAIN PeriodsOf(packets[i]) :
            LET p1 == PeriodsOf(packets[i])[j]
                p2 == PeriodsOf(packets[i])[k]
                t  == packets[i].timestamp
            IN  (Len(PeriodsOf(packets[i])) = 2 /\ GraceOverlap(p1, p2))
                => /\ (t = p1.end + 1 /\ t < p2.start /\ grace_period_after > 1)
                      => flow_ids[i] = p1.id
                   /\ (t = p2.start - 1 /\ t > p1.end /\ t >= p1.end + grace_period_after)
                      => flow_ids[i] = p2.id
                   /\ (t = p2.start - 1 /\ t > p1.end /\ t < p1.end + grace_period_after)
                      => flow_ids[i] = p1.id

\* C4 witness: the packet at s2 - 1ms, past P1's grace, bound to P2
C4_Witness ==
    \E i \in DOMAIN packets :
        \E j, k \in DOMAIN PeriodsOf(packets[i]) :
            LET p1 == PeriodsOf(packets[i])[j]
                p2 == PeriodsOf(packets[i])[k]
                t  == packets[i].timestamp
            IN  /\ Len(PeriodsOf(packets[i])) = 2
                /\ GraceOverlap(p1, p2)
                /\ t = p2.start - 1
                /\ t >= p1.end + grace_period_after
                /\ flow_ids[i] = p2.id

\* The periods behind the After candidates of packet i
AfterPeriods(i) ==
    {PeriodsOf(packets[i])[j] : j \in
        {k \in DOMAIN PeriodsOf(packets[i]) :
            \E c \in DOMAIN candidates[i] :
                /\ candidates[i][c].id = PeriodsOf(packets[i])[k].id
                /\ candidates[i][c].time_difference.tag = "After"}}

DroppedForKey(i) ==
    /\ flow_ids'[i] = NoFlow
    /\ candidates'[i] = <<>>
    /\ \A u \in DOMAIN data' : packets'[i].id \notin IdsIn(data'[u])

\* The packets of the call that were given the uid
Bound(uid) == {packets'[i].id : i \in {k \in DOMAIN packets' : flow_ids'[k] = uid}}

\* Every bucket holds what it held before the call and the packets the call
\* bound to its uid, and no bucket disappears
BucketsGrowByBound ==
    /\ DOMAIN data \subseteq DOMAIN data'
    /\ \A u \in DOMAIN data' :
          /\ Len(data'[u]) = (IF u \in DOMAIN data THEN Len(data[u]) ELSE 0)
                             + Cardinality(Bound(u))
          /\ IdsIn(data'[u]) = (IF u \in DOMAIN data THEN IdsIn(data[u]) ELSE {})
                               \cup Bound(u)

\* C6: a packet whose PacketKey is not in the connection map is dropped by
\* load_packets: it enters no bucket, and the buckets hold after the call what
\* they held before it plus the packets of the call that were bound to a uid.
C6_UnknownKeyDropped ==
    [][ingested' > ingested =>
         /\ \A i \in DOMAIN packets' :
               PacketKeyNew(packets'[i].src_ip, packets'[i].dst_ip,
                            packets'[i].trans_protocol,
                            packets'[i].src_port, packets'[i].dst_port)
                   \notin DOMAIN connection_map
               => DroppedForKey(i)
         /\ BucketsGrowByBound]_vars

\* C6 witness: a second call whose only packet has an unknown key, while a
\* bucket already holds a packet
C6_Witness ==
    /\ ingested = 2
    /\ Len(packets) = 1
    /\ PacketKeyFromPacket(packets[1]) \notin DOMAIN connection_map
    /\ flow_ids[1] = NoFlow
    /\ \E u \in DOMAIN data : Len(data[u]) = 1

\* C7: after every call of load_packets the packets of every bucket are in
\* non-decreasing timestamp order.
C7_BucketsSorted ==
    \A u \in DOMAIN data :
        \A i, j \in DOMAIN data[u] :
            i < j => data[u][i].timestamp <= data[u][j].timestamp

\* C7 witness: a second call added to a bucket a packet older than the one
\* the bucket held
C7_Witness ==
    /\ ingested = 2
    /\ Len(packets) = 1
    /\ \E u \in DOMAIN data :
          /\ Len(data[u]) = 2
          /\ data[u][1].id = 2
          /\ data[u][2].id = 1
          /\ data[u][1].timestamp < data[u][2].timestamp

\* Number of places, over all buckets, that hold the packet with this id
Places(id) ==
    Cardinality({<<u, k>> \in (DOMAIN data) \X (1..MaxPackets + 1) :
                    k \in DOMAIN data[u] /\ data[u][k].id = id})

RECURSIVE TotalBucketed(_)
TotalBucketed(uids) ==
    IF uids = {} THEN 0
    ELSE LET u == CHOOSE x \in uids : TRUE
         IN  Len(data[u]) + TotalBucketed(uids \ {u})

\* C8: every packet passed to load_packets is in at most one bucket and at most
\* once; the number of bucketed packets is the number of packets ingested
\* minus the number of packets dropped with a warning.
C8_AtMostOneBucket ==
    /\ \A id \in 1..ingested : Places(id) <= 1
    /\ TotalBucketed(DOMAIN data) <= ingested
    /\ TotalBucketed(DOMAIN data) = ingested - Len(warnings)

\* C8 witness: of two packets, one was dropped and one was bucketed
C8_Witness ==
    /\ ingested = 2
    /\ Len(warnings) = 1
    /\ TotalBucketed(DOMAIN data) = 1


(***************************************************************************)
(* PacketKey::new on a packet's endpoints and on its reply's               *)
(***************************************************************************)
KeyOfPacketAndReply ==
    /\ \E a \in Ips, b \in Ips, p \in Protocols, pa \in Ports, pb \in Ports :
          /\ key_args' = <<a, b, p, pa, pb>>
          /\ key_fwd' = PacketKeyNew(a, b, p, pa, pb)
          /\ key_rev' = PacketKeyNew(b, a, p, pb, pa)
    /\ UNCHANGED <<aggVars, dirVars, featVars, pcapVars, restVars>>

\* The aggregator before FlowAggregator::new
NoAggregator ==
    /\ connection_map = <<>>
    /\ grace_period_before = 0
    /\ grace_period_after = 0
    /\ data = <<>>
    /\ packets = <<>>
    /\ flow_ids = <<>>
    /\ candidates = <<>>
    /\ remaining = 0
    /\ warnings = <<>>
    /\ ingested = 0

InitKey == NoAggregator /\ NoKeyCall /\ NoDirectionCall /\ NoFeatures /\ NoCapture /\ NoRest

NextKey == KeyOfPacketAndReply

SpecKey == InitKey /\ [][NextKey]_vars

\* C9: PacketKey is direction-agnostic: PacketKey::new(a, b, p, pa, pb) equals
\* PacketKey::new(b, a, p, pb, pa), equal ports with different addresses
\* included.
C9_DirectionAgnostic ==
    key_args # <<>> => key_fwd = key_rev

\* C10: PacketKey::new yields port_a <= port_b, (ip_a, port_a) being the input
\* endpoint with the smaller port; with equal ports the endpoints are stored
\* in the order given.
C10_SmallerPortFirst ==
    key_args # <<>> =>
        LET a == key_args[1]  b == key_args[2]  p == key_args[3]
            pa == key_args[4] pb == key_args[5]
        IN  /\ key_fwd.port_a <= key_fwd.port_b
            /\ key_fwd.trans_protocol = p
            /\ pa <= pb => (/\ key_fwd.ip_a = a /\ key_fwd.port_a = pa
                            /\ key_fwd.ip_b = b /\ key_fwd.port_b = pb)
            /\ pa > pb => (/\ key_fwd.ip_a = b /\ key_fwd.port_a = pb
                           /\ key_fwd.ip_b = a /\ key_fwd.port_b = pa)

\* C10 witness: equal ports, different addresses, stored in the order given
C10_Witness ==
    /\ key_args # <<>>
    /\ key_args[1] # key_args[2]
    /\ key_args[4] = key_args[5]
    /\ key_fwd.ip_a = key_args[1]
    /\ key_fwd.ip_b = key_args[2]

(***************************************************************************)
(* Direction inference (data_generator/src/features.rs)                    *)
(***************************************************************************)
\* Longest methods slice handed to infer_multiple
MaxMethods == 2

MIN_IANA_EPH_PORT == 49152
MAX_IANA_EPH_PORT == 65535
MIN_LINUX_EPH_PORT == 32768
MAX_LINUX_EPH_PORT == 61000
\* The server port FlowData::load configures
HttpsPort == 443

\* Option::None for a direction
NoDirection == "NoDirection"
\* last_ephemeral before the ephemeral check has run
NotRun == "NotRun"

\* Ports: two server ports, a Linux-only ephemeral port, a port that is
\* ephemeral for both ranges and an IANA-only ephemeral port
DirectionPorts == {80, 443, 40000, 50000, 62000}

Ephemeral == [kind |-> "Ephemeral", port |-> 0, ports |-> {}]
ServerPort(server_port) == [kind |-> "ServerPort", port |-> server_port, ports |-> {}]
ServerPorts(server_ports) == [kind |-> "ServerPorts", port |-> 0, ports |-> server_ports]

DirectionInferenceMethods ==
    {Ephemeral, ServerPort(80), ServerPort(443), ServerPorts({80, 443})}

\* infer_from_server_port with the source port tested first
InferFromServerPortSrcFirst(src_port, dst_port, server_port) ==
    IF src_port = server_port THEN "ToClient"
    ELSE IF dst_port = server_port THEN "FromClient"
    ELSE NoDirection

InferFromServerPort(src_port, dst_port, server_port) ==
    IF dst_port = server_port THEN "FromClient"
    ELSE IF src_port = server_port THEN "ToClient"
    ELSE NoDirection

InferFromServerPorts(src_port, dst_port, server_ports) ==
    IF dst_port \in server_ports THEN "FromClient"
    ELSE IF src_port \in server_ports THEN "ToClient"
    ELSE NoDirection

InferEphemeral(src_port, dst_port) ==
    IF src_port >= MIN_IANA_EPH_PORT /\ src_port <= MAX_IANA_EPH_PORT THEN "FromClient"
    ELSE IF dst_port >= MIN_IANA_EPH_PORT /\ dst_port <= MAX_IANA_EPH_PORT THEN "ToClient"
    ELSE IF src_port >= MIN_LINUX_EPH_PORT /\ src_port <= MAX_LINUX_EPH_PORT THEN "FromClient"
    ELSE IF dst_port >= MIN_LINUX_EPH_PORT /\ dst_port <= MAX_LINUX_EPH_PORT THEN "ToClient"
    ELSE NoDirection

Infer(method, src_port, dst_port) ==
    CASE method.kind = "Ephemeral" -> InferEphemeral(src_port, dst_port)
      [] method.kind = "ServerPort" -> InferFromServerPort(src_port, dst_port, method.port)
      [] method.kind = "ServerPorts" -> InferFromServerPorts(src_port, dst_port, method.ports)

\* The items of methods.iter().scan(last_ephemeral, ..) from the i-th method
\* on: the closure's Some values up to, and without, its first None
RECURSIVE Scan(_, _, _, _, _)
Scan(methods, i, last_ephemeral, src_port, dst_port) ==
    IF i > Len(methods) THEN <<>>
    ELSE LET method == methods[i]
             cached == method = Ephemeral /\ last_ephemeral # NotRun
             dir == IF cached THEN last_ephemeral
                    ELSE Infer(method, src_port, dst_port)
             state == IF method = Ephemeral /\ ~cached THEN dir ELSE last_ephemeral
         IN  IF dir = NoDirection THEN <<>>
             ELSE <<dir>> \o Scan(methods, i + 1, state, src_port, dst_port)

\* .next().unwrap_or_else(|| Unknown) of that scan
InferMultiple(src_port, dst_port, methods) ==
    LET items == Scan(methods, 1, NotRun, src_port, dst_port)
    IN  IF items = <<>> THEN "Unknown" ELSE items[1]

MethodLists == UNION {[1..n -> DirectionInferenceMethods] : n \in 0..MaxMethods}

InferMultipleCall ==
    /\ \E src_port \in DirectionPorts, dst_port \in DirectionPorts, methods \in MethodLists :
          /\ dir_ports' = <<src_port, dst_port>>
          /\ dir_methods' = methods
          /\ direction' = InferMultiple(src_port, dst_port, methods)
    /\ UNCHANGED <<aggVars, keyVars, featVars, pcapVars, restVars>>

InitDirection == NoAggregator /\ NoKeyCall /\ NoDirectionCall /\ NoFeatures /\ NoCapture /\ NoRest

NextDirection == InferMultipleCall

SpecDirection == InitDirection /\ [][NextDirection]_vars

\* The methods of the last call that infer a direction for its ports
Inferring ==
    {i \in DOMAIN dir_methods :
        Infer(dir_methods[i], dir_ports[1], dir_ports[2]) # NoDirection}

\* C11: infer_multiple returns the direction of the first method in list order
\* whose infer returns Some, skipping the methods that return None, and
\* returns Unknown only when every method returns None.
C11_FirstSomeWins ==
    dir_ports # <<>> =>
        IF Inferring = {} THEN direction = "Unknown"
        ELSE LET first == CHOOSE i \in Inferring : \A j \in Inferring : i <= j
             IN  direction = Infer(dir_methods[first], dir_ports[1], dir_ports[2])

\* C12: with the method list [ServerPort(443)] the direction is FromClient
\* iff dst_port = 443, ToClient iff src_port = 443, and Unknown otherwise,
\* src_port = dst_port = 443 included.
C12_ServerPort443 ==
    dir_methods = <<ServerPort(443)>> =>
        /\ direction = "FromClient" <=> dir_ports[2] = 443
        /\ direction = "ToClient" <=> dir_ports[1] = 443
        /\ dir_ports[1] # 443 /\ dir_ports[2] # 443 => direction = "Unknown"
        /\ dir_ports[1] = 443 /\ dir_ports[2] = 443 => direction = "Unknown"

\* C12, amended: with the method list [ServerPort(443)] the direction is
\* FromClient iff dst_port = 443, ToClient iff src_port = 443 and
\* dst_port # 443, and Unknown iff neither port is 443; src_port = dst_port
\* = 443 gives FromClient.
C12_ServerPort443DstFirst ==
    dir_methods = <<ServerPort(443)>> =>
        /\ direction = "FromClient" <=> dir_ports[2] = 443
        /\ direction = "ToClient" <=> (dir_ports[1] = 443 /\ dir_ports[2] # 443)
        /\ direction = "Unknown" <=> (dir_ports[1] # 443 /\ dir_ports[2] # 443)

C12_Witness ==
    /\ dir_methods = <<ServerPort(443)>>
    /\ dir_ports = <<443, 443>>
    /\ direction = "FromClient"

(***************************************************************************)
(* Packet and flow features (data_generator/src/features.rs), as           *)
(* FlowData::load drives them (data_generator/src/dataset.rs).             *)
(*                                                                         *)
(* Timestamps and interarrival edges are in milliseconds here, as in the   *)
(* aggregator above; the program keeps nanoseconds and every edge is a     *)
(* whole number of milliseconds.  An f64 quotient c / d is kept as the     *)
(* pair <<c, d>>: the counts are far below 2^53, so c as f64 and d as f64  *)
(* are exact, and <<0, 0>> stands for the NaN of 0.0 / 0.0.                *)
(***************************************************************************)
\* Most packets in one flow
MaxFlowPackets == 3
\* Most flows in one fold
MaxFlows == 2

\* The methods FlowData::load passes to from_stripped_packets
DirInferenceMethods == <<ServerPort(HttpsPort)>>

\* payload_size_bins of FlowData::load
PayloadSizeBins ==
    [i \in 1..10 |-> 10 * i] \o [i \in 1..9 |-> 100 * (i + 1)]
        \o [i \in 1..9 |-> 1000 * (i + 1)] \o <<65536>>

\* interarrival_from_client_bins of FlowData::load, in milliseconds
InterarrivalFromClientBins ==
    [i \in 1..10 |-> i] \o [i \in 1..9 |-> 10 * (i + 1)]
        \o [i \in 1..9 |-> 100 * (i + 1)] \o <<10000>>

InterarrivalToClientBins == InterarrivalFromClientBins

StrippedPacket(timestamp, src_port, dst_port, payload_length) ==
    [timestamp |-> timestamp, src_port |-> src_port, dst_port |-> dst_port,
     payload_length |-> payload_length]

\* (src_port, dst_port, payload_length) of the packets of a flow: from the
\* client, to the client and of unknown direction, with a payload inside a
\* bin, on an edge and on the largest edge
FlowPacketKinds ==
    {<<50000, 443, 50>>, <<50000, 443, 100>>, <<443, 50000, 100>>,
     <<443, 50000, 65536>>, <<50000, 80, 50>>, <<50000, 80, 65536>>}
\* Timestamps of the packets of a flow
FlowTimes == {0, 5, 15}

\* A bucket of the aggregator: sorted by timestamp
Flows ==
    UNION {{[i \in 1..n |-> StrippedPacket(ts[i], ks[i][1], ks[i][2], ks[i][3])] :
               ts \in {t \in [1..n -> FlowTimes] : \A i \in 1..(n - 1) : t[i] <= t[i + 1]},
               ks \in [1..n -> FlowPacketKinds]} :
           n \in 0..MaxFlowPackets}

\* LastTimestamps with one timestamp for both directions
LastOfEither(lts, dir) ==
    IF lts.from_client = <<>> THEN lts.to_client
    ELSE IF lts.to_client = <<>> THEN lts.from_client
    ELSE IF lts.from_client[1] >= lts.to_client[1] THEN lts.from_client
    ELSE lts.to_client

\* The last timestamp of a direction: <<>> is None, <<t>> is Some(t)
LastOf(lts, dir) ==
    IF dir = "FromClient" THEN lts.from_client ELSE lts.to_client

\* The scan of from_stripped_packets from the i-th packet on
RECURSIVE ScanPackets(_, _, _, _)
ScanPackets(pkts, i, lts, methods) ==
    IF i > Len(pkts) THEN <<>>
    ELSE LET packet == pkts[i]
             dir == InferMultiple(packet.src_port, packet.dst_port, methods)
             last == LastOf(lts, dir)
             interarrival_time ==
                 IF dir = "Unknown" \/ last = <<>> THEN 0
                 ELSE packet.timestamp - last[1]
             next == CASE dir = "FromClient" -> [lts EXCEPT !.from_client = <<packet.timestamp>>]
                       [] dir = "ToClient" -> [lts EXCEPT !.to_client = <<packet.timestamp>>]
                       [] OTHER -> lts
         IN  <<[payload_length |-> packet.payload_length,
                interarrival_time |-> interarrival_time,
                direction |-> dir]>>
             \o ScanPackets(pkts, i + 1, next, methods)

FromStrippedPackets(pkts, methods) ==
    ScanPackets(pkts, 1, [from_client |-> <<>>, to_client |-> <<>>], methods)

\* The bin search with a value on an edge counted in the bin of that edge
FirstBinInclusive(value, bin_sizes) ==
    LET fits == {idx \in DOMAIN bin_sizes : value <= bin_sizes[idx]}
    IN  IF fits = {} THEN 0 ELSE CHOOSE idx \in fits : \A other \in fits : idx <= other

\* The inner loops of generate: the index of the first bin_max with
\* value < bin_max, 0 when the loop ends without a break
FirstBin(value, bin_sizes) ==
    LET fits == {idx \in DOMAIN bin_sizes : value < bin_sizes[idx]}
    IN  IF fits = {} THEN 0 ELSE CHOOSE idx \in fits : \A other \in fits : idx <= other

\* generate with every packet counted in both interarrival histograms
GenerateUndirected(features, payload_length_bin_sizes, interarrival_from_client_bin_sizes, interarrival_to_client_bin_sizes) ==
    [payload_length_freq_bins |->
        [idx \in DOMAIN payload_length_bin_sizes |->
            Cardinality({i \in DOMAIN features :
                FirstBin(features[i].payload_length, payload_length_bin_sizes) = idx})],
     interarrival_freq_from_client_bins |->
        [idx \in DOMAIN interarrival_from_client_bin_sizes |->
            Cardinality({i \in DOMAIN features :
                FirstBin(features[i].interarrival_time,
                         interarrival_from_client_bin_sizes) = idx})],
     interarrival_freq_to_client_bins |->
        [idx \in DOMAIN interarrival_to_client_bin_sizes |->
            Cardinality({i \in DOMAIN features :
                FirstBin(features[i].interarrival_time,
                         interarrival_to_client_bin_sizes) = idx})]]

Generate(features, payload_length_bin_sizes, interarrival_from_client_bin_sizes, interarrival_to_client_bin_sizes) ==
    [payload_length_freq_bins |->
        [idx \in DOMAIN payload_length_bin_sizes |->
            Cardinality({i \in DOMAIN features :
                FirstBin(features[i].payload_length, payload_length_bin_sizes) = idx})],
     interarrival_freq_from_client_bins |->
        [idx \in DOMAIN interarrival_from_client_bin_sizes |->
            Cardinality({i \in DOMAIN features :
                /\ features[i].direction = "FromClient"
                /\ FirstBin(features[i].interarrival_time,
                            interarrival_from_client_bin_sizes) = idx})],
     interarrival_freq_to_client_bins |->
        [idx \in DOMAIN interarrival_to_client_bin_sizes |->
            Cardinality({i \in DOMAIN features :
                /\ features[i].direction = "ToClient"
                /\ FirstBin(features[i].interarrival_time,
                            interarrival_to_client_bin_sizes) = idx})]]

Empty(num_payload_length_bins, num_ia_from_client_bins, num_ia_to_client_bins) ==
    [payload_length_freq_bins |-> [idx \in 1..num_payload_length_bins |-> 0],
     interarrival_freq_from_client_bins |-> [idx \in 1..num_ia_from_client_bins |-> 0],
     interarrival_freq_to_client_bins |-> [idx \in 1..num_ia_to_client_bins |-> 0]]

\* The accumulation of one vector: rhs no longer than self
AddBins(self, rhs) ==
    [idx \in DOMAIN self |-> IF idx \in DOMAIN rhs THEN self[idx] + rhs[idx] ELSE self[idx]]

\* Add with the interarrival vectors of rhs left out
AddPayloadOnly(self, rhs) ==
    [self EXCEPT !.payload_length_freq_bins =
                     AddBins(self.payload_length_freq_bins, rhs.payload_length_freq_bins)]

Add(self, rhs) ==
    [payload_length_freq_bins |->
        AddBins(self.payload_length_freq_bins, rhs.payload_length_freq_bins),
     interarrival_freq_from_client_bins |->
        AddBins(self.interarrival_freq_from_client_bins,
                rhs.interarrival_freq_from_client_bins),
     interarrival_freq_to_client_bins |->
        AddBins(self.interarrival_freq_to_client_bins,
                rhs.interarrival_freq_to_client_bins)]

\* iter().sum::<usize>()
RECURSIVE Sum(_)
Sum(bins) == IF bins = <<>> THEN 0 ELSE Head(bins) + Sum(Tail(bins))

\* The divisor without the substitution for zero
ZeroHandlerIdentity(d) == d

ZeroHandler(d) == IF d = 0 THEN 1 ELSE d

NormalizeBins(bins) ==
    LET sum == ZeroHandler(Sum(bins))
    IN  [idx \in DOMAIN bins |-> <<bins[idx], sum>>]

Normalize(flow_features) ==
    [payload_length_freq_bins |-> NormalizeBins(flow_features.payload_length_freq_bins),
     interarrival_freq_from_client_bins |->
        NormalizeBins(flow_features.interarrival_freq_from_client_bins),
     interarrival_freq_to_client_bins |->
        NormalizeBins(flow_features.interarrival_freq_to_client_bins)]

OnlyFeatures == <<aggVars, keyVars, dirVars, pcapVars, restVars>>

\* .map(|(_, packets)| PacketFeatures::from_stripped_packets(..))
FromStrippedPacketsStep ==
    /\ feat_pc = "packets"
    /\ packet_features' = FromStrippedPackets(flow_packets, DirInferenceMethods)
    /\ feat_pc' = "features"
    /\ UNCHANGED <<flow_packets, pending_flows, folded, flow_acc, normalized>>
    /\ UNCHANGED OnlyFeatures

\* .map(|features| FlowFeatures::generate(..))
GenerateStep ==
    /\ feat_pc = "features"
    /\ pending_flows' = Append(pending_flows,
                               Generate(packet_features, PayloadSizeBins,
                                        InterarrivalFromClientBins,
                                        InterarrivalToClientBins))
    /\ feat_pc' = "fold"
    /\ UNCHANGED <<flow_packets, packet_features, folded, flow_acc, normalized>>
    /\ UNCHANGED OnlyFeatures

\* One step of .fold(.., |(count, flow_acc), flow| (0, flow_acc + flow))
FoldStep ==
    /\ feat_pc = "fold"
    /\ pending_flows # <<>>
    /\ flow_acc' = Add(flow_acc, Head(pending_flows))
    /\ folded' = Append(folded, Head(pending_flows))
    /\ pending_flows' = Tail(pending_flows)
    /\ UNCHANGED <<feat_pc, flow_packets, packet_features, normalized>>
    /\ UNCHANGED OnlyFeatures

\* features.normalize()
NormalizeStep ==
    /\ feat_pc = "fold"
    /\ pending_flows = <<>>
    /\ normalized' = Normalize(flow_acc)
    /\ feat_pc' = "done"
    /\ UNCHANGED <<flow_packets, packet_features, pending_flows, folded, flow_acc>>
    /\ UNCHANGED OnlyFeatures

\* One flow of a capture, from its bucket to the normalized features
InitFeatures ==
    /\ NoAggregator /\ NoKeyCall /\ NoDirectionCall /\ NoCapture /\ NoRest
    /\ feat_pc = "packets"
    /\ flow_packets \in Flows
    /\ packet_features = <<>>
    /\ pending_flows = <<>>
    /\ folded = <<>>
    /\ flow_acc = Empty(Len(PayloadSizeBins), Len(InterarrivalFromClientBins),
                        Len(InterarrivalToClientBins))
    /\ normalized = NoFlow

NextFeatures == FromStrippedPacketsStep \/ GenerateStep \/ FoldStep \/ NormalizeStep

SpecFeatures == InitFeatures /\ [][NextFeatures]_vars

\* The packets before the i-th that have the direction of the i-th
Earlier(i) ==
    {j \in 1..(i - 1) : packet_features[j].direction = packet_features[i].direction}

\* C13: from_stripped_packets gives the first packet of a direction the
\* interarrival time 0, each later packet of that direction its timestamp
\* minus the timestamp of the previous packet of the same direction, whatever
\* packets of the other direction lie in between, and an Unknown packet 0.
C13_InterarrivalPerDirection ==
    feat_pc \in {"features", "fold", "done"} =>
        /\ Len(packet_features) = Len(flow_packets)
        /\ \A i \in DOMAIN flow_packets :
              packet_features[i].interarrival_time =
                  IF packet_features[i].direction = "Unknown" \/ Earlier(i) = {} THEN 0
                  ELSE LET previous == CHOOSE j \in Earlier(i) : \A k \in Earlier(i) : k <= j
                       IN  flow_packets[i].timestamp - flow_packets[previous].timestamp

C13_Witness ==
    /\ feat_pc = "features"
    /\ Len(packet_features) = 3
    /\ packet_features[1].direction = "FromClient"
    /\ packet_features[2].direction = "ToClient"
    /\ packet_features[3].direction = "FromClient"
    /\ flow_packets[2].timestamp = 5
    /\ packet_features[3].interarrival_time = 15

\* The FlowFeatures generate returned for the flow
Generated == IF pending_flows # <<>> THEN pending_flows[1] ELSE folded[1]

\* C14: generate counts each packet in at most one payload bin, that of the
\* first edge e with payload_length < e; a payload length equal to an edge is
\* counted in the next bin and one at or above every edge in no bin, so the
\* histogram total is the number of packets below the largest edge.
C14_PayloadBins ==
    feat_pc \in {"fold", "done"} =>
        LET bins == Generated.payload_length_freq_bins
            edges == PayloadSizeBins
        IN  /\ Len(bins) = Len(edges)
            /\ \A idx \in DOMAIN edges :
                  bins[idx] = Cardinality({i \in DOMAIN flow_packets :
                                  /\ flow_packets[i].payload_length < edges[idx]
                                  /\ \A below \in 1..(idx - 1) :
                                        flow_packets[i].payload_length >= edges[below]})
            /\ Sum(bins) = Cardinality({i \in DOMAIN flow_packets :
                              flow_packets[i].payload_length < edges[Len(edges)]})

\* A packet inside a bin, one on the edge 100 and one on the largest edge
C14_Witness ==
    /\ feat_pc = "fold"
    /\ pending_flows # <<>>
    /\ {flow_packets[i].payload_length : i \in DOMAIN flow_packets} = {50, 100, 65536}
    /\ pending_flows[1].payload_length_freq_bins[6] = 1
    /\ pending_flows[1].payload_length_freq_bins[10] = 0
    /\ pending_flows[1].payload_length_freq_bins[11] = 1
    /\ Sum(pending_flows[1].payload_length_freq_bins) = 2

\* The flow of the scenario: three packets from the client at 0, 5 ms, 15 ms
ThreeFromClient ==
    /\ Len(flow_packets) = 3
    /\ \A i \in 1..3 : flow_packets[i].dst_port = 443 /\ flow_packets[i].src_port # 443
    /\ flow_packets[1].timestamp = 0
    /\ flow_packets[2].timestamp = 5
    /\ flow_packets[3].timestamp = 15

\* C15: for that flow and the default bins the from-client interarrival
\* histogram holds exactly two samples, the 5 ms and 10 ms gaps, normalized
\* to 0.5 each, and the to-client histogram is all zeros.
C15_TwoSamples ==
    feat_pc = "done" /\ ThreeFromClient =>
        LET iaf == normalized.interarrival_freq_from_client_bins
            iat == normalized.interarrival_freq_to_client_bins
        IN  /\ Sum(flow_acc.interarrival_freq_from_client_bins) = 2
            /\ Cardinality({idx \in DOMAIN iaf : iaf[idx][1] # 0}) = 2
            /\ \A idx \in DOMAIN iaf : iaf[idx][1] # 0 => 2 * iaf[idx][1] = iaf[idx][2]
            /\ \A idx \in DOMAIN iat : iat[idx][1] = 0

\* C15, amended: the histogram holds three samples, the interarrival time 0
\* of the first packet in the first bin (below 1 ms), the 5 ms gap in the
\* bin below 6 ms and the 10 ms gap in the bin below 20 ms, normalized to
\* 1/3 each, and the to-client histogram is all zeros.
C15_ThreeSamples ==
    feat_pc = "done" /\ ThreeFromClient =>
        LET iaf == normalized.interarrival_freq_from_client_bins
            iat == normalized.interarrival_freq_to_client_bins
        IN  /\ Len(iaf) = 29 /\ Len(iat) = 29
            /\ \A idx \in DOMAIN iaf :
                  iaf[idx] = IF idx \in {1, 6, 11} THEN <<1, 3>> ELSE <<0, 3>>
            /\ \A idx \in DOMAIN iat : iat[idx][1] = 0 /\ iat[idx][2] # 0

C15_Witness ==
    /\ feat_pc = "done"
    /\ ThreeFromClient
    /\ normalized.interarrival_freq_from_client_bins[1] = <<1, 3>>

(***************************************************************************)
(* The fold and the normalization alone, over FlowFeatures of few bins     *)
(***************************************************************************)
\* Counts of a bin of one flow
FoldBinCounts == {0, 2}

\* FlowFeatures of two payload bins and one bin for each direction
SmallFlowFeatures ==
    {[payload_length_freq_bins |-> pl,
      interarrival_freq_from_client_bins |-> iaf,
      interarrival_freq_to_client_bins |-> iat] :
        pl \in [1..2 -> FoldBinCounts], iaf \in [1..1 -> FoldBinCounts],
        iat \in [1..1 -> FoldBinCounts]}

\* The flows of one capture, already generated
InitFold ==
    /\ NoAggregator /\ NoKeyCall /\ NoDirectionCall /\ NoCapture /\ NoRest
    /\ feat_pc = "fold"
    /\ flow_packets = <<>>
    /\ packet_features = <<>>
    /\ pending_flows \in UNION {[1..n -> SmallFlowFeatures] : n \in 0..MaxFlows}
    /\ folded = <<>>
    /\ flow_acc = Empty(2, 1, 1)
    /\ normalized = NoFlow

NextFold == FoldStep \/ NormalizeStep

SpecFold == InitFold /\ [][NextFold]_vars

HistogramNames ==
    {"payload_length_freq_bins", "interarrival_freq_from_client_bins",
     "interarrival_freq_to_client_bins"}

\* The sum of the idx-th bin of one histogram over the first n flows folded
RECURSIVE FoldedTotal(_, _, _)
FoldedTotal(name, idx, n) ==
    IF n = 0 THEN 0 ELSE folded[n][name][idx] + FoldedTotal(name, idx, n - 1)

\* C16: FlowFeatures::empty(n1, n2, n3) + X equals X for every X whose
\* histograms have the lengths n1, n2, n3, and the fold from empty yields the
\* element-wise sum of the histograms of all flows.
C16_FoldIsSum ==
    feat_pc \in {"fold", "done"} =>
        /\ Len(folded) = 1 => flow_acc = folded[1]
        /\ \A name \in HistogramNames :
              /\ Len(flow_acc[name]) = Len(Empty(2, 1, 1)[name])
              /\ \A idx \in DOMAIN flow_acc[name] :
                    flow_acc[name][idx] = FoldedTotal(name, idx, Len(folded))

C16_Witness ==
    /\ feat_pc = "fold"
    /\ Len(folded) = 2
    /\ folded[1].interarrival_freq_from_client_bins[1] = 2
    /\ folded[2].interarrival_freq_from_client_bins[1] = 2
    /\ flow_acc.interarrival_freq_from_client_bins[1] = 4

\* C17: after normalization each of the three vectors keeps its length and
\* either sums to 1, every entry being count/sum of that vector, or, when its
\* counts sum to 0, is all zeros; no entry is NaN and every entry is in [0,1].
C17_NormalizedOrZero ==
    feat_pc = "done" =>
        \A name \in HistogramNames :
            LET counts == flow_acc[name]
                entries == normalized[name]
                total == FoldedTotal(name, 1, Len(folded))
                         + (IF Len(counts) > 1 THEN FoldedTotal(name, 2, Len(folded)) ELSE 0)
            IN  /\ Len(entries) = Len(counts)
                /\ \A idx \in DOMAIN entries :
                      /\ entries[idx][2] # 0
                      /\ 0 <= entries[idx][1] /\ entries[idx][1] <= entries[idx][2]
                /\ IF total = 0
                   THEN \A idx \in DOMAIN entries : entries[idx][1] = 0
                   ELSE \A idx \in DOMAIN entries : entries[idx] = <<counts[idx], total>>

\* One vector with samples and one without
C17_Witness ==
    /\ feat_pc = "done"
    /\ normalized.payload_length_freq_bins = <<<<2, 6>>, <<4, 6>>>>
    /\ normalized.interarrival_freq_to_client_bins = <<<<0, 1>>>>

(***************************************************************************)
(* The PCAP reader (data_generator/src/pcap.rs) and its caller             *)
(* Packet::load_from_pcap (data_generator/src/packet.rs).                  *)
(*                                                                         *)
(* An unsigned integer is the sequence of its base-256 digits, least       *)
(* significant first: a u32 has four digits, a u64 eight, and the          *)
(* arithmetic of get_time_as_nanos is carried out on the digits, so that   *)
(* a product or a sum that does not fit in eight digits loses its high     *)
(* digits as the u64 of a release build does.  A field of the file is the  *)
(* four bytes in file order.                                               *)
(***************************************************************************)
\* Most records in a capture file
MaxRecords == 2

Reverse(bytes) == [i \in 1..Len(bytes) |-> bytes[Len(bytes) + 1 - i]]

\* 0xa1b2c3d4, 0xd4c3b2a1, 0xa1b23c4d and 0x4d3cb2a1
MagicMicros == <<212, 195, 178, 161>>
MagicMicrosFlipped == <<161, 178, 195, 212>>
MagicNanos == <<77, 60, 178, 161>>
MagicNanosFlipped == <<161, 178, 60, 77>>

\* Magic numbers a writer puts in a file: the two of libpcap, 0xa1b2c3d5
\* and the 0x0a0d0d0a of pcapng
WrittenMagics == {MagicMicros, MagicNanos, <<213, 195, 178, 161>>, <<10, 13, 13, 10>>}

\* (ts_sec, ts_usec) of the records: 0 and 0, 1 s and 999999, 0x04030201 and
\* 0x00070605, and the largest u32 twice
RecordTimes ==
    {<<<<0, 0, 0, 0>>, <<0, 0, 0, 0>>>>,
     <<<<1, 0, 0, 0>>, <<63, 66, 15, 0>>>>,
     <<<<1, 2, 3, 4>>, <<5, 6, 7, 0>>>>,
     <<<<255, 255, 255, 255>>, <<255, 255, 255, 255>>>>}

\* The bytes a writer of the given byte order puts in the file for a u32
WriteU32(value, order) == IF order = "little" THEN value ELSE Reverse(value)

\* byteorder's read_u32::<LittleEndian> and read_u32::<BigEndian>
ReadU32(bytes, order) == IF order = "little" THEN bytes ELSE Reverse(bytes)

\* A record as a writer of the given byte order writes it: header_len of the
\* 16 header bytes and data_len of the incl_len data bytes are in the file
FileRecord(time, order, header_len, data_len) ==
    [ts_sec |-> WriteU32(time[1], order), ts_usec |-> WriteU32(time[2], order),
     incl_len |-> 2, header_len |-> header_len, data_len |-> data_len]

\* The ways a file ends: after a whole record, inside a record header, or
\* inside the data of a record
LastRecords(time, order) ==
    {FileRecord(time, order, 16, 2), FileRecord(time, order, 9, 0),
     FileRecord(time, order, 16, 1)}

\* Capture files: the magic number, header_len of the 20 bytes of the file
\* header that follow it, and the records; order and written_magic keep what
\* the writer meant
\* The records of a file: whole records, the last one ending in any of the
\* three ways
RecordLists(order) ==
    UNION {{r \in [1..n -> UNION {LastRecords(t, order) : t \in RecordTimes}] :
               \A i \in 1..(n - 1) :
                   r[i].header_len = 16 /\ r[i].data_len = r[i].incl_len} :
           n \in 0..MaxRecords}

CaptureFiles ==
    UNION {{[order |-> order, written_magic |-> magic, magic |-> WriteU32(magic, order),
             header_len |-> header_len, records |-> recs] :
               magic \in WrittenMagics, header_len \in {20, 7},
               recs \in RecordLists(order)} :
           order \in {"little", "big"}}

\* The match on the magic number with the flags of the two nanosecond
\* sentinels exchanged
MagicFlagsNanosSwapped(magic_number) ==
    CASE magic_number = MagicMicros -> [valid |-> TRUE, is_flipped |-> FALSE, is_nanosecond_res |-> FALSE]
      [] magic_number = MagicMicrosFlipped -> [valid |-> TRUE, is_flipped |-> TRUE, is_nanosecond_res |-> FALSE]
      [] magic_number = MagicNanos -> [valid |-> TRUE, is_flipped |-> TRUE, is_nanosecond_res |-> TRUE]
      [] magic_number = MagicNanosFlipped -> [valid |-> TRUE, is_flipped |-> FALSE, is_nanosecond_res |-> TRUE]
      [] OTHER -> [valid |-> FALSE, is_flipped |-> FALSE, is_nanosecond_res |-> FALSE]

\* The match on the magic number; valid is FALSE in the arm that returns Err
MagicFlags(magic_number) ==
    CASE magic_number = MagicMicros -> [valid |-> TRUE, is_flipped |-> FALSE, is_nanosecond_res |-> FALSE]
      [] magic_number = MagicMicrosFlipped -> [valid |-> TRUE, is_flipped |-> TRUE, is_nanosecond_res |-> FALSE]
      [] magic_number = MagicNanos -> [valid |-> TRUE, is_flipped |-> FALSE, is_nanosecond_res |-> TRUE]
      [] magic_number = MagicNanosFlipped -> [valid |-> TRUE, is_flipped |-> TRUE, is_nanosecond_res |-> TRUE]
      [] OTHER -> [valid |-> FALSE, is_flipped |-> FALSE, is_nanosecond_res |-> FALSE]

\* The cfg(target_endian) blocks: the byte order of the fields
EndiannessOf(target, flipped) ==
    IF target = "little" THEN (IF flipped THEN "big" ELSE "little")
    ELSE (IF flipped THEN "little" ELSE "big")

\* PcapReader::from_reader; ok is FALSE for Err
FromReader(file, target) ==
    LET magic_number == ReadU32(file.magic, target)
        flags == MagicFlags(magic_number)
    IN  [ok |-> flags.valid /\ file.header_len = 20,
         is_flipped |-> flags.is_flipped,
         endianness |-> EndiannessOf(target, flags.is_flipped),
         is_nanosecond_res |-> flags.is_nanosecond_res]

\* n * k + carry for a small k, digit by digit
RECURSIVE MulSmall(_, _, _)
MulSmall(n, k, carry) ==
    IF n = <<>>
    THEN IF carry = 0 THEN <<>> ELSE <<carry % 256>> \o MulSmall(<<>>, k, carry \div 256)
    ELSE LET v == Head(n) * k + carry
         IN  <<v % 256>> \o MulSmall(Tail(n), k, v \div 256)

\* a + b + carry, digit by digit
RECURSIVE AddDigits(_, _, _)
AddDigits(a, b, carry) ==
    IF a = <<>> /\ b = <<>> THEN (IF carry = 0 THEN <<>> ELSE <<carry>>)
    ELSE LET x == IF a = <<>> THEN 0 ELSE Head(a)
             y == IF b = <<>> THEN 0 ELSE Head(b)
             v == x + y + carry
         IN  <<v % 256>> \o AddDigits(IF a = <<>> THEN a ELSE Tail(a),
                                      IF b = <<>> THEN b ELSE Tail(b), v \div 256)

\* The value in an unsigned integer of width bytes: n modulo 256^width
Wrap(n, width) == [i \in 1..width |-> IF i <= Len(n) THEN n[i] ELSE 0]

\* n * 1_000_000_000
MulBillion(n) == MulSmall(MulSmall(MulSmall(n, 1000, 0), 1000, 0), 1000, 0)

\* get_time_as_nanos with the microseconds multiplied in u32, as
\* get_time_as_duration multiplies them
GetTimeAsNanosU32(ts_sec, ts_usec, is_nanosecond_res) ==
    Wrap(AddDigits(Wrap(MulBillion(Wrap(ts_sec, 8)), 8),
                   IF is_nanosecond_res THEN Wrap(ts_usec, 8)
                   ELSE Wrap(Wrap(MulSmall(ts_usec, 1000, 0), 4), 8),
                   0), 8)

\* PcapRecordHeader::get_time_as_nanos, every operation in u64
GetTimeAsNanos(ts_sec, ts_usec, is_nanosecond_res) ==
    Wrap(AddDigits(Wrap(MulBillion(Wrap(ts_sec, 8)), 8),
                   IF is_nanosecond_res THEN Wrap(ts_usec, 8)
                   ELSE Wrap(MulSmall(Wrap(ts_usec, 8), 1000, 0), 8),
                   0), 8)

\* PcapRecord::read_from at the record after the pos-th; ok is FALSE for Err
\* (no byte left, a header of fewer than 16 bytes, fewer data bytes than
\* incl_len)
ReadRecord(file, pos, endianness) ==
    IF pos >= Len(file.records)
    THEN [ok |-> FALSE, ts_sec |-> <<>>, ts_usec |-> <<>>, incl_len |-> 0]
    ELSE LET rec == file.records[pos + 1]
         IN  [ok |-> rec.header_len = 16 /\ rec.data_len >= rec.incl_len,
              ts_sec |-> ReadU32(rec.ts_sec, endianness),
              ts_usec |-> ReadU32(rec.ts_usec, endianness),
              incl_len |-> rec.incl_len]

OnlyCapture == <<aggVars, keyVars, dirVars, featVars, restVars>>

\* PcapReader::open(..).expect(..) of Packet::load_from_pcap
Open ==
    /\ pcap_pc = "closed"
    /\ LET r == FromReader(pcap_file, target_endian)
       IN  /\ is_flipped' = r.is_flipped
           /\ IF r.ok
              THEN /\ reader' = <<[endianness |-> r.endianness,
                                   is_nanosecond_res |-> r.is_nanosecond_res]>>
                   /\ pcap_pc' = "open"
                   /\ capture_result' = capture_result
              ELSE /\ reader' = <<>>
                   /\ pcap_pc' = "panicked"
                   /\ capture_result' = "panic"
    /\ UNCHANGED <<target_endian, pcap_file, pcap_pos, records>>
    /\ UNCHANGED OnlyCapture

\* Iterator::next of the reader, as the collect of FlowData::load drives it
\* through the flat_map of load_from_pcap: the record with its timestamp, or
\* the end of the sequence
NextRecord ==
    /\ pcap_pc = "open"
    /\ LET r == ReadRecord(pcap_file, pcap_pos, reader[1].endianness)
       IN  IF r.ok
           THEN /\ records' = Append(records,
                                [ts_sec |-> r.ts_sec, ts_usec |-> r.ts_usec,
                                 incl_len |-> r.incl_len,
                                 timestamp |-> GetTimeAsNanos(r.ts_sec, r.ts_usec,
                                                   reader[1].is_nanosecond_res)])
                /\ pcap_pos' = pcap_pos + 1
                /\ pcap_pc' = pcap_pc
           ELSE /\ pcap_pc' = "ended"
                /\ UNCHANGED <<records, pcap_pos>>
    /\ UNCHANGED <<target_endian, pcap_file, reader, is_flipped, capture_result>>
    /\ UNCHANGED OnlyCapture

\* The rest of FlowData::load: the packets collected are aggregated, turned
\* into features and returned in Ok(FlowData)
ReturnFlowData ==
    /\ pcap_pc = "ended"
    /\ capture_result' = "FlowData"
    /\ pcap_pc' = "done"
    /\ UNCHANGED <<target_endian, pcap_file, reader, is_flipped, pcap_pos, records>>
    /\ UNCHANGED OnlyCapture

InitPcap ==
    /\ NoAggregator /\ NoKeyCall /\ NoDirectionCall /\ NoFeatures /\ NoRest
    /\ target_endian \in {"little", "big"}
    /\ pcap_file \in CaptureFiles
    /\ pcap_pc = "closed"
    /\ reader = <<>>
    /\ is_flipped = FALSE
    /\ pcap_pos = 0
    /\ records = <<>>
    /\ capture_result = NoFlow

NextPcap == Open \/ NextRecord \/ ReturnFlowData

SpecPcap == InitPcap /\ [][NextPcap]_vars

\* The magic number as the reading machine's native u32
NativeMagic ==
    IF target_endian = "little" THEN pcap_file.magic ELSE Reverse(pcap_file.magic)

\* C18: from_reader maps the natively read magic number 0xA1B2C3D4 to (not
\* swapped, microseconds), 0xD4C3B2A1 to (swapped, microseconds), 0xA1B23C4D
\* to (not swapped, nanoseconds) and 0x4D3CB2A1 to (swapped, nanoseconds), and
\* fails, constructing no reader, for every other magic value.
C18_MagicNumbers ==
    pcap_pc # "closed" =>
        /\ NativeMagic \notin {MagicMicros, MagicMicrosFlipped, MagicNanos, MagicNanosFlipped}
              => reader = <<>> /\ pcap_pc = "panicked"
        /\ NativeMagic \in {MagicMicros, MagicMicrosFlipped, MagicNanos, MagicNanosFlipped}
              => /\ is_flipped = (NativeMagic \in {MagicMicrosFlipped, MagicNanosFlipped})
                 /\ pcap_file.header_len = 20 =>
                       /\ reader # <<>>
                       /\ reader[1].is_nanosecond_res =
                              (NativeMagic \in {MagicNanos, MagicNanosFlipped})

C18_Witness ==
    /\ pcap_pc = "open"
    /\ NativeMagic = MagicNanosFlipped
    /\ is_flipped
    /\ reader # <<>>
    /\ reader[1].is_nanosecond_res

\* A capture file a libpcap writer produced whole
WellFormed ==
    /\ pcap_file.written_magic \in {MagicMicros, MagicNanos}
    /\ pcap_file.header_len = 20
    /\ \A i \in DOMAIN pcap_file.records :
          pcap_file.records[i].header_len = 16
          /\ pcap_file.records[i].data_len = pcap_file.records[i].incl_len

\* The value the writer put in a field of the file
Written(bytes) == IF pcap_file.order = "little" THEN bytes ELSE Reverse(bytes)

\* ts_sec * 10^9 + ts_frac * (1 or 1000) of the i-th record of the file, with
\* as many digits as the value needs
ExactNanos(i) ==
    AddDigits(MulBillion(Written(pcap_file.records[i].ts_sec)),
              IF pcap_file.written_magic = MagicNanos
              THEN Written(pcap_file.records[i].ts_usec)
              ELSE MulSmall(Written(pcap_file.records[i].ts_usec), 1000, 0),
              0)

\* C19: for a well-formed capture of N records, under each of the four magic
\* numbers, the iterator yields exactly N records in file order and then
\* ends, and record i has the timestamp ts_sec * 10^9 + ts_frac * (1 if
\* nanosecond resolution else 1000), which fits in the u64.
C19_RecordsAndTimestamps ==
    WellFormed /\ pcap_pc # "closed" =>
        /\ pcap_pc \in {"open", "ended", "done"}
        /\ Len(records) = pcap_pos
        /\ Len(records) <= Len(pcap_file.records)
        /\ pcap_pc \in {"ended", "done"} => Len(records) = Len(pcap_file.records)
        /\ \A i \in DOMAIN records :
              /\ records[i].ts_sec = Written(pcap_file.records[i].ts_sec)
              /\ Len(ExactNanos(i)) <= 8
              /\ records[i].timestamp =
                     [d \in 1..8 |-> IF d <= Len(ExactNanos(i)) THEN ExactNanos(i)[d] ELSE 0]

\* Two records of a byte-swapped microsecond capture, the second with the
\* largest field values
C19_Witness ==
    /\ WellFormed
    /\ pcap_pc = "ended"
    /\ is_flipped
    /\ ~reader[1].is_nanosecond_res
    /\ Len(records) = 2
    /\ records[1].ts_sec = <<1, 2, 3, 4>>
    /\ records[2].ts_usec = <<255, 255, 255, 255>>

\* A capture file that ends inside a record header or inside record data
Truncated ==
    \E i \in DOMAIN pcap_file.records :
        \/ pcap_file.records[i].header_len < 16
        \/ pcap_file.records[i].data_len < pcap_file.records[i].incl_len

\* C20: a capture file with a truncated record header or a record shorter
\* than its incl_len abandons the whole capture: no FlowData is emitted and
\* the records read before the short one are not turned into features.
C20_TruncatedAbandoned ==
    pcap_pc # "closed" /\ Truncated => capture_result # "FlowData"

\* The packet has a candidate of the given variant for the uid
HasCandidate(i, uid, tag) ==
    \E k \in DOMAIN candidates[i] :
       candidates[i][k].id = uid /\ candidates[i][k].time_difference.tag = tag

\* C31: for a packet at time t with no exact match and a period [start, end]
\* of its key, the period is an After candidate exactly when
\* end < t < end + grace_after and a Before candidate exactly when
\* start - grace_before < t < start.  The code's tests are one-sided: this
\* statement is violated.
C31_TwoSidedWindows ==
    \A i \in DOMAIN packets :
       NoExactMatch(packets[i]) =>
          \A j \in DOMAIN PeriodsOf(packets[i]) :
             LET period == PeriodsOf(packets[i])[j]
                 t == packets[i].timestamp
             IN  /\ HasCandidate(i, period.id, "After")
                       <=> (period.end < t /\ t < period.end + grace_period_after)
                 /\ HasCandidate(i, period.id, "Before")
                       <=> (period.start < t + grace_period_before /\ t < period.start)

(***************************************************************************)
(* The feature-extraction tool (data_generator/src/main.rs) and its        *)
(* Dataset driver (data_generator/src/dataset.rs).                         *)
(*                                                                         *)
(* rayon runs FlowData::load on the items of work in any order and its     *)
(* collect into a Vec keeps the items in the order of work; a panic of one *)
(* item is resumed in the caller of the parallel iterator.  The url of an  *)
(* entry is left out: an entry is told from the others by its class and    *)
(* its index.                                                              *)
(***************************************************************************)
\* Most lines in report.json
MaxEntries == 2

\* CaptureWorkType, and its derived order Normal < Tor
CaptureWorkTypes == {"normal", "tor"}
TypeRank(work_type) == IF work_type = "normal" THEN 0 ELSE 1

\* What an entry meets in FlowData::load: nothing; a capture without a
\* packet on port 443; no scratch directory; a data path that is no
\* directory; a pcap path that is no file; an analyzer that cannot be
\* spawned; an analyzer that exits non-zero; no conn.log; a capture the
\* analyzer reads whose magic number PcapReader rejects
Faults ==
    {"none", "no443", "temp_dir", "data_path", "pcap_path", "spawn",
     "analyzer_exit", "conn_log", "bad_magic"}

Reports ==
    [work_type : CaptureWorkTypes, index : 1..2, success : BOOLEAN, fault : Faults]

\* report.json: absent or unreadable, or its entries in file order, at most
\* one of them meeting a fault
Manifests ==
    {[readable |-> FALSE, entries |-> <<>>]} \cup
    {[readable |-> TRUE, entries |-> e] :
        e \in UNION {{m \in [1..n -> Reports] :
                         /\ Cardinality({i \in 1..n : m[i].fault # "none"}) <= 1
                         /\ \A i \in 1..n : ~m[i].success => m[i].fault = "none"} :
                     n \in 0..MaxEntries}}

\* The key of par_sort_unstable_by_key: a before b
KeyLeq(a, b) ==
    \/ TypeRank(a.work_type) < TypeRank(b.work_type)
    \/ a.work_type = b.work_type /\ a.index <= b.index

\* The sort left out: the entries in any order
AnyOrder(entries) ==
    {[i \in DOMAIN entries |-> entries[p[i]]] :
        p \in {q \in [DOMAIN entries -> DOMAIN entries] :
                  \A i, j \in DOMAIN entries : i # j => q[i] # q[j]}}

\* par_sort_unstable_by_key: the orders of the entries that are sorted by
\* the key, entries of equal keys in any order
SortedWork(entries) ==
    {w \in AnyOrder(entries) : \A i, j \in DOMAIN w : i < j => KeyLeq(w[i], w[j])}

\* The filter of Dataset::load with every report let through
FilterAll(report) == TRUE

\* .filter(|report| report.success)
Filter(report) == report.success

\* A step of FlowData::load that never fails on the analyzer's exit status
StepFailsNotOnExit(report, step) == report.fault = step /\ step # "analyzer_exit"

\* Whether the step of FlowData::load returns its error for this report
StepFails(report, step) == report.fault = step

\* A TempDir that is forgotten instead of dropped
DropTempDirLeak(scratch) == scratch

\* Drop of TempDir: the directory, unless it is closed already, is removed
DropTempDir(scratch) == IF scratch = "exists" THEN "removed" ELSE scratch

\* The packets of the capture of an entry, stripped
CapturePackets(report) ==
    IF report.fault = "no443"
    THEN <<StrippedPacket(0, 50000, 80, 50), StrippedPacket(5, 80, 50000, 100)>>
    ELSE <<StrippedPacket(0, 50000, 443, 50), StrippedPacket(5, 443, 50000, 100),
           StrippedPacket(15, 50000, 443, 50), StrippedPacket(15, 50000, 80, 50)>>

\* The packet filter with every packet kept
Filter443Keep(pkts) == pkts

\* .filter(|packet| packet.src_port == 443 || packet.dst_port == 443)
Filter443(pkts) ==
    SelectSeq(pkts, LAMBDA packet : packet.src_port = HttpsPort \/ packet.dst_port = HttpsPort)

\* into_aggregated_flows: the packets kept, as the one flow of the capture;
\* no flow when no packet is kept
AggregatedFlows(pkts) == IF pkts = <<>> THEN <<>> ELSE <<pkts>>

\* The fold of FlowData::load over the flows, from the i-th on
RECURSIVE FoldFlows(_, _, _)
FoldFlows(flow_features, i, acc) ==
    IF i > Len(flow_features) THEN acc
    ELSE FoldFlows(flow_features, i + 1, Add(acc, flow_features[i]))

\* The features of the FlowData of an entry
FeaturesOf(report) ==
    LET flows == AggregatedFlows(Filter443(CapturePackets(report)))
        flow_features ==
            [i \in DOMAIN flows |->
                Generate(FromStrippedPackets(flows[i], DirInferenceMethods),
                         PayloadSizeBins, InterarrivalFromClientBins,
                         InterarrivalToClientBins)]
    IN  Normalize(FoldFlows(flow_features, 1,
                            Empty(Len(PayloadSizeBins), Len(InterarrivalFromClientBins),
                                  Len(InterarrivalToClientBins))))

Outcome_(state, scratch, analyzer_ran, flow_data) ==
    [state |-> state, scratch |-> scratch, analyzer_ran |-> analyzer_ran,
     flow_data |-> flow_data]

\* FlowData::load: the steps in order, each early return dropping the
\* TempDir; the result is Ok, Err or a panic
FlowDataLoad(report) ==
    IF StepFails(report, "temp_dir") THEN Outcome_("Err", "none", FALSE, <<>>)
    ELSE IF StepFails(report, "data_path") \/ StepFails(report, "pcap_path")
            \/ StepFails(report, "spawn")
         THEN Outcome_("Err", DropTempDir("exists"), FALSE, <<>>)
    ELSE IF StepFails(report, "analyzer_exit") \/ StepFails(report, "conn_log")
         THEN Outcome_("Err", DropTempDir("exists"), TRUE, <<>>)
    ELSE LET closed == "removed"
         IN  IF StepFails(report, "bad_magic")
             THEN Outcome_("panic", DropTempDir(closed), TRUE, <<>>)
             ELSE Outcome_("Ok", DropTempDir(closed), TRUE,
                           <<[class |-> report.work_type, index |-> report.index,
                              features |-> FeaturesOf(report)]>>)

Pending == Outcome_("pending", "none", FALSE, <<>>)
Filtered == Outcome_("filtered", "none", FALSE, <<>>)

\* into_group_map over the collected vector: the FlowData of each class in
\* the order of the vector
RECURSIVE Collected(_, _, _)
Collected(res, i, class) ==
    IF i > Len(res) THEN <<>>
    ELSE (IF res[i].state = "Ok" /\ res[i].flow_data[1].class = class
          THEN res[i].flow_data ELSE <<>>)
         \o Collected(res, i + 1, class)

GroupMap(res) ==
    LET found == {res[i].flow_data[1].class : i \in {j \in DOMAIN res : res[j].state = "Ok"}}
    IN  [class \in found |-> Collected(res, 1, class)]

\* FlowDataTensor::from_flow_data; u, the url of the entry, is given by the
\* index of the entry
FromFlowData(flow) ==
    [c |-> flow.class, u |-> flow.index,
     pl |-> flow.features.payload_length_freq_bins,
     iaf |-> flow.features.interarrival_freq_from_client_bins,
     iat |-> flow.features.interarrival_freq_to_client_bins]

OnlyBatch == <<aggVars, keyVars, dirVars, featVars, pcapVars, parseVars, entropyVars, queueVars, lateVars>>

\* Dataset::load up to the sort: the ensure! on report.json, the parse
\* and par_sort_unstable_by_key
ReadReport ==
    /\ run_pc = "start"
    /\ IF manifest.readable
       THEN \E w \in SortedWork(manifest.entries) :
               /\ work' = w
               /\ results' = [i \in DOMAIN w |-> Pending]
               /\ run_pc' = "loading"
       ELSE /\ run_pc' = "returned_err"
            /\ UNCHANGED <<work, results>>
    /\ UNCHANGED <<manifest, classes, output, exit_status>>
    /\ UNCHANGED OnlyBatch

\* One item of the parallel iterator: the filter and FlowData::load
LoadItem ==
    /\ run_pc = "loading"
    /\ \E i \in DOMAIN work :
          /\ results[i].state = "pending"
          /\ LET outcome == IF Filter(work[i]) THEN FlowDataLoad(work[i]) ELSE Filtered
             IN  /\ results' = [results EXCEPT ![i] = outcome]
                 /\ run_pc' = IF outcome.state = "panic" THEN "panicked" ELSE run_pc
    /\ UNCHANGED <<manifest, work, classes, output, exit_status>>
    /\ UNCHANGED OnlyBatch

\* The collect and into_group_map of Dataset::load
Collect ==
    /\ run_pc = "loading"
    /\ \A i \in DOMAIN work : results[i].state # "pending"
    /\ classes' = GroupMap(results)
    /\ run_pc' = "loaded"
    /\ UNCHANGED <<manifest, work, results, output, exit_status>>
    /\ UNCHANGED OnlyBatch

\* The lines of the file of each class in written
ClassFiles(written) ==
    [class \in written |->
        [i \in DOMAIN classes[class] |-> FromFlowData(classes[class][i])]]

\* Dataset::save: every class file written, the classes in the order of
\* the HashMap, or the error of a File::create after the files of some of
\* the classes
Save ==
    /\ run_pc = "loaded"
    /\ \/ /\ output' = ClassFiles(DOMAIN classes)
          /\ run_pc' = "returned_ok"
       \/ \E written \in SUBSET (DOMAIN classes) :
             /\ written # DOMAIN classes
             /\ output' = ClassFiles(written)
             /\ run_pc' = "returned_err"
    /\ UNCHANGED <<manifest, work, results, classes, exit_status>>
    /\ UNCHANGED OnlyBatch

\* main: an error of run is logged and main returns; a panic ends the
\* process with the status 101 of the Rust runtime
Main ==
    /\ run_pc \in {"returned_ok", "returned_err", "panicked"}
    /\ exit_status = <<>>
    /\ exit_status' = IF run_pc = "panicked" THEN <<101>> ELSE <<0>>
    /\ UNCHANGED <<manifest, work, results, run_pc, classes, output>>
    /\ UNCHANGED OnlyBatch

InitBatch ==
    /\ NoAggregator /\ NoKeyCall /\ NoDirectionCall /\ NoFeatures /\ NoCapture
    /\ NoParse /\ NoEntropyCall /\ NoQueue /\ NoLate
    /\ manifest \in Manifests
    /\ work = <<>>
    /\ results = <<>>
    /\ run_pc = "start"
    /\ classes = <<>>
    /\ output = <<>>
    /\ exit_status = <<>>

NextBatch == ReadReport \/ LoadItem \/ Collect \/ Save \/ Main

SpecBatch == InitBatch /\ [][NextBatch]_vars

\* The entries of work that the filter lets through and for which
\* FlowData::load meets no failing step
Loadable(report) == report.success /\ report.fault \in {"none", "no443"}

\* The lines written for a class, none when the class has no file
LinesOf(class) == IF class \in DOMAIN output THEN output[class] ELSE <<>>

\* The indices of the lines of a class, in the order of the file
IndicesOf(class) == [k \in DOMAIN LinesOf(class) |-> LinesOf(class)[k].u]

\* The indices of the loadable entries of a class, in the order of work
LoadableIndices(class) ==
    LET kept == SelectSeq(work, LAMBDA report : Loadable(report) /\ report.work_type = class)
    IN  [k \in DOMAIN kept |-> kept[k].index]

\* C21: when one entry's capture has a bad magic number, the run still
\* completes with exit status 0 and every other successful entry has its
\* line in the file of its class.  The code panics instead: this
\* statement is violated.
C21_BadMagicIsolated ==
    (/\ exit_status # <<>>
     /\ \E i \in DOMAIN manifest.entries :
           manifest.entries[i].success /\ manifest.entries[i].fault = "bad_magic")
    => /\ exit_status = <<0>>
       /\ \A class \in CaptureWorkTypes : IndicesOf(class) = LoadableIndices(class)

\* C22: when a step of FlowData::load returns an error for one entry, the
\* entry gives no FlowData and the files hold exactly the lines of the
\* other entries, as if the failing entry were absent.
C22_ErrorSkipsOnlyEntry ==
    /\ \A i \in DOMAIN results :
          (work[i].success /\ results[i].state # "pending"
           /\ work[i].fault \in {"temp_dir", "data_path", "pcap_path", "spawn",
                                 "analyzer_exit", "conn_log"})
          => results[i].state = "Err" /\ results[i].flow_data = <<>>
    /\ run_pc = "returned_ok" =>
          \A class \in CaptureWorkTypes :
             LET others ==
                     SelectSeq(work, LAMBDA report :
                                  /\ report.success
                                  /\ report.fault \in {"none", "no443"}
                                  /\ report.work_type = class)
             IN  /\ Len(LinesOf(class)) = Len(others)
                 /\ \A k \in DOMAIN others :
                       /\ LinesOf(class)[k].c = class
                       /\ LinesOf(class)[k].u = others[k].index

C22_Witness ==
    /\ run_pc = "returned_ok"
    /\ Len(work) = 2
    /\ work[1].work_type = "normal" /\ work[1].success /\ work[1].fault = "analyzer_exit"
    /\ work[2].work_type = "normal" /\ work[2].success /\ work[2].fault = "none"
    /\ results[1].state = "Err"
    /\ Len(LinesOf("normal")) = 1
    /\ LinesOf("normal")[1].u = work[2].index

\* C23: within each class the collected FlowData and the written lines
\* are in ascending order of the index, whatever the order in which the
\* entries are loaded.
C23_AscendingIndex ==
    /\ \A class \in DOMAIN classes :
          \A k, l \in DOMAIN classes[class] :
             k < l => classes[class][k].index <= classes[class][l].index
    /\ \A class \in DOMAIN output :
          \A k, l \in DOMAIN output[class] :
             k < l => output[class][k].u <= output[class][l].u

C23_Witness ==
    /\ run_pc = "returned_ok"
    /\ Len(manifest.entries) = 2
    /\ manifest.entries[1].work_type = "tor" /\ manifest.entries[1].index = 2
    /\ manifest.entries[2].work_type = "tor" /\ manifest.entries[2].index = 1
    /\ Len(LinesOf("tor")) = 2
    /\ LinesOf("tor")[1].u = 1 /\ LinesOf("tor")[2].u = 2

\* C24: an entry with success = false is never processed (no analyzer run,
\* no scratch directory, no FlowData), and the lines written are at most
\* as many as the entries with success = true.
C24_FailedEntriesDropped ==
    /\ \A i \in DOMAIN results :
          ~work[i].success =>
             /\ results[i].state \in {"pending", "filtered"}
             /\ ~results[i].analyzer_ran
             /\ results[i].scratch = "none"
             /\ results[i].flow_data = <<>>
    /\ Len(LinesOf("normal")) + Len(LinesOf("tor"))
          <= Cardinality({i \in DOMAIN manifest.entries : manifest.entries[i].success})

C24_Witness ==
    /\ run_pc = "returned_ok"
    /\ Len(work) = 2
    /\ ~work[1].success /\ work[1].work_type = "normal"
    /\ work[2].success /\ work[2].work_type = "normal"
    /\ results[1].state = "filtered"
    /\ Len(LinesOf("normal")) = 1

\* C25: a successful entry whose capture has no packet from or to port 443
\* gives exactly one line of its class, with pl, iaf and iat all zeros and
\* as long as the configured bin vectors.
C25_NoHttpsAllZeros ==
    run_pc = "returned_ok" =>
       \A i \in DOMAIN work :
          (work[i].success /\ work[i].fault = "no443") =>
             LET class == work[i].work_type
                 before == {j \in 1..i : /\ work[j].success
                                         /\ work[j].fault \in {"none", "no443"}
                                         /\ work[j].work_type = class}
                 all == {j \in DOMAIN work : /\ work[j].success
                                              /\ work[j].fault \in {"none", "no443"}
                                              /\ work[j].work_type = class}
                 line == LinesOf(class)[Cardinality(before)]
             IN  /\ Len(LinesOf(class)) = Cardinality(all)
                 /\ line.u = work[i].index
                 /\ Len(line.pl) = 29 /\ Len(line.iaf) = 29 /\ Len(line.iat) = 29
                 /\ \A idx \in 1..29 :
                       /\ line.pl[idx][1] = 0 /\ line.pl[idx][2] # 0
                       /\ line.iaf[idx][1] = 0 /\ line.iaf[idx][2] # 0
                       /\ line.iat[idx][1] = 0 /\ line.iat[idx][2] # 0

C25_Witness ==
    /\ run_pc = "returned_ok"
    /\ Len(work) = 2
    /\ work[1].work_type = "normal" /\ work[1].success /\ work[1].fault = "no443"
    /\ work[2].work_type = "normal" /\ work[2].success /\ work[2].fault = "none"
    /\ Len(LinesOf("normal")) = 2
    /\ \A idx \in 1..29 : LinesOf("normal")[1].pl[idx] = <<0, 1>>
    /\ \E idx \in 1..29 : LinesOf("normal")[2].pl[idx][1] > 0

\* C26: once FlowData::load has finished for an entry, by its result, by
\* an early error or by a panic, no scratch directory of the entry exists.
C26_ScratchRemoved ==
    \A i \in DOMAIN results :
       results[i].state # "pending" => results[i].scratch # "exists"

C26_Witness ==
    \E i \in DOMAIN results :
       /\ work[i].fault = "analyzer_exit"
       /\ results[i].state = "Err"
       /\ results[i].analyzer_ran
       /\ results[i].scratch = "removed"

\* C27: the tool ends with a non-zero exit status whenever run returns an
\* error, and with exit status 0 only when load and save both succeeded.
\* main only logs the error of run: this statement is violated.
C27_ExitStatus ==
    exit_status # <<>> =>
       /\ run_pc = "returned_err" => exit_status # <<0>>
       /\ exit_status = <<0>> => run_pc = "returned_ok"

(***************************************************************************)
(* The decoding of the records of a capture                                *)
(* (data_generator/src/packet.rs, Packet::from_record and the flat_map of  *)
(* Packet::load_from_pcap).                                                *)
(*                                                                         *)
(* Of the bytes of a record the model keeps what from_record branches on:  *)
(* whether each layer parses, the ethertype and the transport protocol.    *)
(* A layer behind the first one that stops the decoding is never looked    *)
(* at and stands at one value.                                             *)
(***************************************************************************)
\* Most records in a capture
MaxCaptureRecords == 2

EtherTypes == {"Ipv4", "Ipv6", "Arp"}
IpNextHeaderProtocols == {"Tcp", "Udp", "Icmp"}

\* The data of a record, by the layers from_record decodes
RecordData ==
    {d \in [ethernet : BOOLEAN, ethertype : EtherTypes, ip : BOOLEAN,
            protocol : IpNextHeaderProtocols, transport : BOOLEAN] :
        /\ ~d.ethernet => d.ethertype = "Arp"
        /\ d.ethertype = "Arp" => ~d.ip
        /\ ~d.ip => d.protocol = "Icmp"
        /\ d.protocol = "Icmp" => ~d.transport}

\* The captures: the i-th record carries the timestamp i
Captures ==
    UNION {{[i \in 1..n |-> [timestamp |-> i, data |-> c[i]]] : c \in [1..n -> RecordData]} :
           n \in 0..MaxCaptureRecords}

Err(error) == [ok |-> FALSE, error |-> error]
Ok(packet) == [ok |-> TRUE, packet |-> packet]

\* Packet::from_record
FromRecord(record) ==
    LET frame == record.data
    IN  IF ~frame.ethernet THEN Err("InvalidEthernetHeader")
        ELSE IF frame.ethertype = "Ipv4" /\ ~frame.ip THEN Err("InvalidIpv4Header")
        ELSE IF frame.ethertype = "Ipv6" /\ ~frame.ip THEN Err("InvalidIpv6Header")
        ELSE IF frame.ethertype \notin {"Ipv4", "Ipv6"} THEN Err("InvalidInternetLayer")
        ELSE IF frame.protocol = "Tcp" /\ ~frame.transport THEN Err("InvalidTcpHeader")
        ELSE IF frame.protocol = "Udp" /\ ~frame.transport THEN Err("InvalidUdpHeader")
        ELSE IF frame.protocol \notin {"Tcp", "Udp"} THEN Err("InvalidTransportProtocol")
        ELSE Ok([ip |-> frame.ethertype, trans_protocol |-> frame.protocol,
                 timestamp |-> record.timestamp])

\* An adapter that ends the sequence at the first record that is an Err
RECURSIVE NextUntilErr(_, _)
NextUntilErr(recs, pos) ==
    IF pos >= Len(recs) THEN [pos |-> Len(recs), item |-> <<>>]
    ELSE LET result == FromRecord(recs[pos + 1])
         IN  IF result.ok THEN [pos |-> pos + 1, item |-> <<result.packet>>]
             ELSE [pos |-> Len(recs), item |-> <<>>]

\* next() of pcap_reader.flat_map(from_record): the records are read until
\* one is Ok, which is the item; at the end of the records the item is None
RECURSIVE FlatMapNext(_, _)
FlatMapNext(recs, pos) ==
    IF pos >= Len(recs) THEN [pos |-> Len(recs), item |-> <<>>]
    ELSE LET result == FromRecord(recs[pos + 1])
         IN  IF result.ok THEN [pos |-> pos + 1, item |-> <<result.packet>>]
             ELSE FlatMapNext(recs, pos + 1)

\* One next() of the iterator load_from_pcap returns, by its consumer
NextPacket ==
    /\ capture_records # <<>>
    /\ parse_pos < Len(capture_records)
    /\ LET got == FlatMapNext(capture_records, parse_pos)
       IN  /\ parse_pos' = got.pos
           /\ parsed_packets' = parsed_packets \o got.item
    /\ UNCHANGED capture_records
    /\ UNCHANGED <<aggVars, keyVars, dirVars, featVars, pcapVars, batchVars, entropyVars, queueVars, lateVars>>

InitParse ==
    /\ NoAggregator /\ NoKeyCall /\ NoDirectionCall /\ NoFeatures /\ NoCapture
    /\ NoBatch /\ NoEntropyCall /\ NoQueue /\ NoLate
    /\ capture_records \in Captures
    /\ parse_pos = 0
    /\ parsed_packets = <<>>

NextParse == NextPacket

SpecParse == InitParse /\ [][NextParse]_vars

\* A record that from_record decodes: every layer parses, the ethertype is
\* IPv4 or IPv6 and the transport protocol TCP or UDP
Decodes(record) ==
    /\ record.data.ethernet
    /\ record.data.ethertype \in {"Ipv4", "Ipv6"}
    /\ record.data.ip
    /\ record.data.protocol \in {"Tcp", "Udp"}
    /\ record.data.transport

\* C28: a record that cannot be decoded is skipped without ending the
\* sequence: when the records are used up, the packets yielded are those
\* of the well-formed records, every one of them, in the order of the file.
C28_BadRecordSkipped ==
    LET good == SelectSeq(capture_records, Decodes)
    IN  /\ Len(parsed_packets) <= Len(good)
        /\ \A k \in DOMAIN parsed_packets : parsed_packets[k].timestamp = good[k].timestamp
        /\ (capture_records # <<>> /\ parse_pos = Len(capture_records))
              => Len(parsed_packets) = Len(good)

C28_Witness ==
    /\ Len(capture_records) = 2
    /\ capture_records[1].data.ethernet
    /\ capture_records[1].data.ethertype = "Ipv4"
    /\ capture_records[1].data.ip
    /\ capture_records[1].data.protocol = "Icmp"
    /\ Decodes(capture_records[2])
    /\ parse_pos = 2
    /\ Len(parsed_packets) = 1
    /\ parsed_packets[1].timestamp = 2

(***************************************************************************)
(* The entropy of a payload (data_generator/src/entropy.rs).               *)
(*                                                                         *)
(* The f64 arithmetic is carried out in fixed point.  A frequency f / len  *)
(* is kept as the pair of its two counts; log2 of it is the difference of  *)
(* the logarithms of the counts, each a multiple of 1 / 2^12 computed by   *)
(* repeated squaring of a mantissa of 14 fraction bits, exact where the    *)
(* count is a power of two, as f64::log2 is; the result is the pair        *)
(* <<num, den>> that stands for num / (den * 2^12).                        *)
(***************************************************************************)
\* Longest payload over PayloadBytes
MaxPayloadLen == 4

\* The byte values the payloads are drawn from
PayloadBytes == {0, 1, 255}

\* The payload [0, 1, .., 2^k - 1]
Ramp(k) == [i \in 1..(2^k) |-> i - 1]

Payloads ==
    UNION {[1..n -> PayloadBytes] : n \in 0..MaxPayloadLen} \cup {Ramp(k) : k \in 0..8}

\* frequencies: the count of every byte value
Frequencies(bytes) ==
    [byte \in 0..255 |-> Cardinality({i \in DOMAIN bytes : bytes[i] = byte})]

\* The largest e with 2^e <= x, x >= 1
RECURSIVE FloorLog2(_)
FloorLog2(x) == IF x < 2 THEN 0 ELSE 1 + FloorLog2(x \div 2)

\* The fraction bits of log2 of a mantissa m in [2^14, 2^15), from bit on
RECURSIVE FractionBits(_, _)
FractionBits(m, bit) ==
    IF bit > 12 THEN 0
    ELSE LET sq == (m * m) \div (2^14)
         IN  IF sq >= 2^15
             THEN 2^(12 - bit) + FractionBits(sq \div 2, bit + 1)
             ELSE FractionBits(sq, bit + 1)

\* log2 of a count x >= 1, in units of 1 / 2^12
Log2(x) ==
    LET e == FloorLog2(x)
    IN  e * 2^12 + FractionBits((x * 2^14) \div (2^e), 1)

\* frequency * frequency.log2() for a count out of len, times len; 0.0 for
\* the count 0
Term(frequency, len) ==
    IF frequency = 0 THEN 0 ELSE frequency * (Log2(frequency) - Log2(len))

\* .sum::<f64>() over the byte values lo..hi, by halves
RECURSIVE SumTerms(_, _, _, _)
SumTerms(frequencies, len, lo, hi) ==
    IF lo = hi THEN Term(frequencies[lo], len)
    ELSE LET mid == (lo + hi) \div 2
         IN  SumTerms(frequencies, len, lo, mid) + SumTerms(frequencies, len, mid + 1, hi)

\* The sum left as it is
AbsIdentity(x) == x

\* f64::abs
Abs(x) == IF x < 0 THEN -x ELSE x

\* shannon_entropy
ShannonEntropy(bytes) ==
    LET len == Len(bytes)
        sum == SumTerms(Frequencies(bytes), len, 0, 255)
    IN  <<Abs(sum), IF len = 0 THEN 1 ELSE len>>

\* A call of shannon_entropy
ShannonEntropyCall ==
    /\ entropy = <<>>
    /\ entropy' = <<ShannonEntropy(payload)>>
    /\ UNCHANGED payload
    /\ UNCHANGED <<aggVars, keyVars, dirVars, featVars, pcapVars, batchVars, parseVars, queueVars, lateVars>>

InitEntropy ==
    /\ NoAggregator /\ NoKeyCall /\ NoDirectionCall /\ NoFeatures /\ NoCapture
    /\ NoBatch /\ NoParse /\ NoQueue /\ NoLate
    /\ payload \in Payloads
    /\ entropy = <<>>

NextEntropy == ShannonEntropyCall

SpecEntropy == InitEntropy /\ [][NextEntropy]_vars

\* C29: shannon_entropy is 0.0 for the empty payload and for a payload of
\* one repeated byte value, exactly k for [0, 1, .., 2^k - 1] with k in
\* 1..7, and between 0 and 8 for every payload.
C29_EntropyValues ==
    entropy # <<>> =>
       LET num == entropy[1][1]
           den == entropy[1][2]
       IN  /\ den > 0
           /\ 0 <= num /\ num <= 8 * den * 2^12
           /\ (\A i, j \in DOMAIN payload : payload[i] = payload[j]) => num = 0
           /\ \A k \in 1..7 :
                 (/\ Len(payload) = 2^k
                  /\ \A i \in DOMAIN payload : payload[i] = i - 1)
                 => num = k * den * 2^12

C29_Witness ==
    /\ Len(payload) = 128
    /\ \A i \in DOMAIN payload : payload[i] = i - 1
    /\ entropy = <<<<7 * 128 * 2^12, 128>>>>

C29_WitnessRepeated ==
    /\ payload = <<255, 255, 255>>
    /\ entropy = <<<<0, 3>>>>

(***************************************************************************)
(* The work queue of the url_queue service                                 *)
(* (data_collection/url_queue/url_queue/src/work.rs, capture.rs).          *)
(*                                                                         *)
(* A BinaryHeap is kept as the bag of its items, written as the sequence   *)
(* of them in ascending index: the layout of the vector behind the heap is *)
(* not modelled.  The heap of the standard library orders its items with   *)
(* the comparison operators <= and >, which are those of PartialOrd.  Of a *)
(* CaptureWork the model keeps the index: url and filename play no part    *)
(* in partial_cmp.                                                         *)
(***************************************************************************)
\* Most items queued at a time, over all work types
MaxWork == 2

\* Largest index of a work item
MaxIndex == 3

\* Most clients ever added
MaxClients == 2

CaptureWorks == [index : 1..MaxIndex]

\* The preference lists of a client
Preferences == {<<>>, <<"normal">>, <<"tor">>, <<"normal", "tor">>, <<"tor", "normal">>}

\* The comparison of the indices, as the derived Ord has it
DerivedCmp(self, other) ==
    IF self.index < other.index THEN "Less"
    ELSE IF self.index = other.index THEN "Equal" ELSE "Greater"

\* impl PartialOrd for CaptureWork: the comparison of the indices, reversed
PartialCmp(self, other) ==
    IF self.index < other.index THEN "Greater"
    ELSE IF self.index = other.index THEN "Equal" ELSE "Less"

\* self <= other
Le(self, other) == PartialCmp(self, other) \in {"Less", "Equal"}

\* BinaryHeap::push
HeapPush(heap, item) ==
    LET below == SelectSeq(heap, LAMBDA queued : queued.index <= item.index)
        above == SelectSeq(heap, LAMBDA queued : queued.index > item.index)
    IN  below \o <<item>> \o above

\* A pop that leaves the item in the heap
HeapPeek(heap) ==
    {[item |-> heap[p], heap |-> heap] :
        p \in {r \in DOMAIN heap : \A q \in DOMAIN heap : Le(heap[q], heap[r])}}

\* BinaryHeap::pop on a heap that is not empty: a greatest item by <= and
\* the heap without it
HeapPop(heap) ==
    {[item |-> heap[p],
      heap |-> [q \in 1..(Len(heap) - 1) |-> IF q < p THEN heap[q] ELSE heap[q + 1]]] :
        p \in {r \in DOMAIN heap : \A q \in DOMAIN heap : Le(heap[q], heap[r])}}

\* entry(work_type).or_insert_with(BinaryHeap::new).push(work_item)
PushWork(queues, work_type, work_item) ==
    [t \in DOMAIN queues \cup {work_type} |->
        IF t = work_type
        THEN HeapPush(IF t \in DOMAIN queues THEN queues[t] ELSE <<>>, work_item)
        ELSE queues[t]]

\* WorkQueue::from_iter: the work map
RECURSIVE FromIter(_)
FromIter(iter) ==
    IF iter = <<>> THEN <<>>
    ELSE LET last == iter[Len(iter)]
         IN  PushWork(FromIter(SubSeq(iter, 1, Len(iter) - 1)), last[1], last[2])

\* The adapter run to its end before the first item is taken: every
\* preferred type from the k-th on is popped
RECURSIVE FirstWorkEager(_, _, _)
FirstWorkEager(work_types, k, queues) ==
    IF k > Len(work_types) THEN {[response |-> <<>>, work |-> queues]}
    ELSE LET work_type == work_types[k]
         IN  IF work_type \notin DOMAIN queues \/ queues[work_type] = <<>>
             THEN FirstWorkEager(work_types, k + 1, queues)
             ELSE UNION {{[response |-> <<[work_type |-> work_type, work |-> popped.item]>>,
                           work |-> rest.work] :
                             rest \in FirstWorkEager(work_types, k + 1,
                                         [queues EXCEPT ![work_type] = popped.heap])} :
                         popped \in HeapPop(queues[work_type])}

\* The flat_map and next of request_work, from the k-th preferred type on:
\* the first type with a queue that gives an item
RECURSIVE FirstWork(_, _, _)
FirstWork(work_types, k, queues) ==
    IF k > Len(work_types) THEN {[response |-> <<>>, work |-> queues]}
    ELSE LET work_type == work_types[k]
         IN  IF work_type \notin DOMAIN queues \/ queues[work_type] = <<>>
             THEN FirstWork(work_types, k + 1, queues)
             ELSE {[response |-> <<[work_type |-> work_type, work |-> popped.item]>>,
                    work |-> [queues EXCEPT ![work_type] = popped.heap]] :
                      popped \in HeapPop(queues[work_type])}

\* WorkQueue::request_work
RequestWork(queues, clients, client_id) ==
    IF client_id \notin DOMAIN clients THEN {[response |-> <<>>, work |-> queues]}
    ELSE FirstWork(clients[client_id], 1, queues)

\* The items queued, over all work types
RECURSIVE NumQueued(_, _)
NumQueued(queues, types) ==
    IF types = {} THEN 0
    ELSE LET t == CHOOSE x \in types : TRUE
         IN  Len(queues[t]) + NumQueued(queues, types \ {t})

OnlyQueue == <<aggVars, keyVars, dirVars, featVars, pcapVars, batchVars, parseVars, entropyVars, lateVars>>

\* WorkQueue::add_client
AddClient ==
    /\ wq_cur_client_id < MaxClients
    /\ \E work_types \in Preferences :
          /\ wq_cur_client_id' = wq_cur_client_id + 1
          /\ wq_clients' = [id \in DOMAIN wq_clients \cup {wq_cur_client_id + 1} |->
                               IF id = wq_cur_client_id + 1 THEN work_types
                               ELSE wq_clients[id]]
    /\ wq_request' = 0 /\ wq_response' = <<>> /\ wq_before' = <<>>
    /\ UNCHANGED wq_work
    /\ UNCHANGED OnlyQueue

\* WorkQueue::remove_client
RemoveClient ==
    /\ \E client_id \in 1..MaxClients :
          wq_clients' = [id \in DOMAIN wq_clients \ {client_id} |-> wq_clients[id]]
    /\ wq_request' = 0 /\ wq_response' = <<>> /\ wq_before' = <<>>
    /\ UNCHANGED <<wq_work, wq_cur_client_id>>
    /\ UNCHANGED OnlyQueue

\* A call of WorkQueue::request_work, with the queue as it was before kept
RequestWorkCall ==
    /\ \E client_id \in 1..MaxClients :
          \E got \in RequestWork(wq_work, wq_clients, client_id) :
             /\ wq_request' = client_id
             /\ wq_response' = got.response
             /\ wq_work' = got.work
    /\ wq_before' = <<[work |-> wq_work, clients |-> wq_clients]>>
    /\ UNCHANGED <<wq_clients, wq_cur_client_id>>
    /\ UNCHANGED OnlyQueue

\* WorkQueue::add_work
AddWork ==
    /\ NumQueued(wq_work, DOMAIN wq_work) < MaxWork
    /\ \E work_type \in CaptureWorkTypes, work_item \in CaptureWorks :
          wq_work' = PushWork(wq_work, work_type, work_item)
    /\ wq_request' = 0 /\ wq_response' = <<>> /\ wq_before' = <<>>
    /\ UNCHANGED <<wq_clients, wq_cur_client_id>>
    /\ UNCHANGED OnlyQueue

\* WorkQueue::from_iter over the work read at start
InitQueue ==
    /\ NoAggregator /\ NoKeyCall /\ NoDirectionCall /\ NoFeatures /\ NoCapture
    /\ NoBatch /\ NoParse /\ NoEntropyCall /\ NoLate
    /\ \E n \in 0..MaxWork :
          \E iter \in [1..n -> CaptureWorkTypes \X CaptureWorks] : wq_work = FromIter(iter)
    /\ wq_clients = <<>>
    /\ wq_cur_client_id = 0
    /\ wq_request = 0
    /\ wq_response = <<>>
    /\ wq_before = <<>>

NextQueue == AddClient \/ RemoveClient \/ RequestWorkCall \/ AddWork

SpecQueue == InitQueue /\ [][NextQueue]_vars

\* C30: the item request_work returns has the lowest index of the items
\* that were queued for its work type when the call was made.
C30_LowestIndexFirst ==
    wq_response # <<>> =>
       LET got == wq_response[1]
           queued == wq_before[1].work[got.work_type]
       IN  /\ \E q \in DOMAIN queued : queued[q] = got.work
           /\ \A q \in DOMAIN queued : got.work.index <= queued[q].index

C30_Witness ==
    /\ wq_response # <<>>
    /\ wq_response[1].work_type = "tor"
    /\ wq_response[1].work.index = 1
    /\ Len(wq_before[1].work["tor"]) = 2
    /\ \E q \in 1..2 : wq_before[1].work["tor"][q].index = 3
    /\ Len(wq_work["tor"]) = 1
    /\ wq_work["tor"][1].index = 3

\* The preferred types of the client of the last call that had an item
\* queued when the call was made, by their place in the preference list
Served ==
    LET before == wq_before[1]
    IN  IF wq_request \in DOMAIN before.clients
        THEN {k \in DOMAIN before.clients[wq_request] :
                LET t == before.clients[wq_request][k]
                IN  t \in DOMAIN before.work /\ before.work[t] # <<>>}
        ELSE {}

\* C32: request_work for a registered client returns an item of the first
\* preferred type whose queue is not empty, removes exactly that item and
\* leaves every other queue and the clients as they were; for a client id
\* that is not registered, or with all preferred queues empty, it returns
\* None and changes nothing.
C32_FirstPreferredType ==
    wq_before # <<>> =>
       LET before == wq_before[1]
       IN  /\ wq_clients = before.clients
           /\ DOMAIN wq_work = DOMAIN before.work
           /\ IF Served = {}
              THEN wq_response = <<>> /\ wq_work = before.work
              ELSE LET first == CHOOSE k \in Served : \A l \in Served : k <= l
                       t == before.clients[wq_request][first]
                   IN  /\ wq_response # <<>>
                       /\ wq_response[1].work_type = t
                       /\ \E p \in DOMAIN before.work[t] :
                             /\ before.work[t][p] = wq_response[1].work
                             /\ wq_work[t] = [q \in 1..(Len(before.work[t]) - 1) |->
                                                 IF q < p THEN before.work[t][q]
                                                 ELSE before.work[t][q + 1]]
                       /\ \A u \in DOMAIN wq_work : u # t => wq_work[u] = before.work[u]

C32_Witness ==
    /\ wq_before # <<>>
    /\ wq_request \in DOMAIN wq_clients
    /\ wq_clients[wq_request] = <<"normal", "tor">>
    /\ DOMAIN wq_before[1].work = {"normal", "tor"}
    /\ wq_before[1].work["normal"] = <<>>
    /\ Len(wq_before[1].work["tor"]) = 2
    /\ wq_response # <<>> /\ wq_response[1].work_type = "tor"
    /\ Len(wq_work["tor"]) = 1

C32_WitnessUnregistered ==
    /\ wq_before # <<>>
    /\ wq_request \notin DOMAIN wq_clients
    /\ wq_cur_client_id >= wq_request
    /\ \E t \in DOMAIN wq_work : wq_work[t] # <<>>
    /\ wq_response = <<>>

(***************************************************************************)
(* The tcpdump controller                                                  *)
(* (data_collection/tcpdump_controller/tcpdump_controller/src/main.rs).    *)
(*                                                                         *)
(* A turn of the command loop of handle_connection is one step: the read   *)
(* of the request byte, handle_command, the write of the return code and   *)
(* the match on the result, up to main's break when the turn ends the      *)
(* connection with an error.  What the socket, the spawn and the signals   *)
(* do is chosen by the environment.  flush of a UnixStream does nothing    *)
(* and does not fail.                                                      *)
(***************************************************************************)
\* Most tcpdump children spawned
MaxSpawns == 2

\* Most connections accepted
MaxConnections == 2

\* 0x00 start, 0x01 stop, 0x02 shutdown, and a byte that is no command
Commands == {0, 1, 2, 3}

\* What the client sent after a start command: a filename, nothing that
\* can be read as the length, a length above MAX_FILENAME_LENGTH, a
\* filename that cannot be read, bytes that are not UTF-8
StartArguments == {"ok", "read_length", "too_long", "read_filename", "not_utf8"}

\* Command::spawn and the start-up of the child: started, spawn fails, no
\* stderr handle, read_line on its stderr fails
SpawnOutcomes == {"ok", "spawn", "no_stderr", "first_line"}

\* terminate_child: the child ends with success; it ends with another
\* status; SIGTERM fails and kill() ends it; both fail
TerminateOutcomes == {"ok", "exit_status", "sigterm", "kill"}

\* stream.write of the return code
WriteOutcomes == {"ok", "error"}

TurnEnvironments ==
    [args : StartArguments, spawn : SpawnOutcomes, term : TerminateOutcomes,
     write : WriteOutcomes]

\* terminate_child
TerminateChild(child, running, outcome) ==
    [ok |-> outcome = "ok",
     error |-> CASE outcome = "exit_status" -> "ChildExitError"
                 [] outcome = "sigterm" -> "SigtermError"
                 [] outcome = "kill" -> "KillError"
                 [] OTHER -> "",
     running |-> IF outcome = "kill" THEN running ELSE running \ {child}]

CommandErr(error, running, spawned, terminated) ==
    [ok |-> FALSE, child |-> <<>>, error |-> error, running |-> running,
     spawned |-> spawned, terminated |-> terminated]

CommandOk(child, running, spawned) ==
    [ok |-> TRUE, child |-> child, error |-> "", running |-> running,
     spawned |-> spawned, terminated |-> FALSE]

\* if let Some(child) = tcpdump { terminate_child(child)?; } return Err(error)
GiveUp(tcpdump, running, spawned, term, error) ==
    IF tcpdump = <<>> THEN CommandErr(error, running, spawned, FALSE)
    ELSE LET ended == TerminateChild(tcpdump[1], running, term)
         IN  CommandErr(IF ended.ok THEN error ELSE ended.error, ended.running, spawned, TRUE)

\* The check for a child that is already there, left out
ExistingCheckNever(tcpdump) == FALSE

\* tcpdump.is_some()
ExistingCheck(tcpdump) == tcpdump # <<>>

\* The start command from the spawn on
SpawnTcpdump(running, spawned, env) ==
    LET child == spawned + 1
    IN  IF env.spawn = "spawn" THEN CommandErr("SpawnError", running, spawned, FALSE)
        ELSE IF env.spawn = "ok" THEN CommandOk(<<child>>, running \cup {child}, child)
        ELSE GiveUp(<<child>>, running \cup {child}, child, env.term,
                    IF env.spawn = "no_stderr" THEN "StderrError"
                    ELSE "InitialMessageError")

\* handle_command; at the end of the stream read_u32 fails
HandleCommand(command, tcpdump, running, spawned, eof, env) ==
    CASE command = 0 ->
            LET args == IF eof THEN "read_length" ELSE env.args
            IN  IF args \in {"read_length", "read_filename"}
                THEN GiveUp(tcpdump, running, spawned, env.term, "SocketIOError")
                ELSE IF args = "too_long"
                THEN GiveUp(tcpdump, running, spawned, env.term, "FilenameLengthError")
                ELSE IF args = "not_utf8"
                THEN GiveUp(tcpdump, running, spawned, env.term, "FilenameParseError")
                ELSE IF ExistingCheck(tcpdump)
                THEN GiveUp(tcpdump, running, spawned, env.term, "ExistingTcpdumpError")
                ELSE SpawnTcpdump(running, spawned, env)
      [] command = 1 ->
            IF tcpdump # <<>>
            THEN LET ended == TerminateChild(tcpdump[1], running, env.term)
                 IN  IF ended.ok THEN CommandOk(<<>>, ended.running, spawned)
                     ELSE CommandErr(ended.error, ended.running, spawned, TRUE)
            ELSE CommandErr("NonexistingTcpdumpError", running, spawned, FALSE)
      [] command = 2 ->
            GiveUp(tcpdump, running, spawned, env.term, "ShutdownError")
      [] OTHER -> CommandOk(tcpdump, running, spawned)

\* The write error path with the child of the result forgotten
ChildOfResultNone(command_result) == <<>>

\* if let Ok(Some(child)) = command_result
ChildOfResult(command_result) ==
    IF command_result.ok THEN command_result.child ELSE <<>>

\* One turn of the loop of handle_connection after read returned Ok, with
\* what main does when the turn returns an error
Turn(command, eof, env) ==
    LET result == HandleCommand(command, tcp_tcpdump, tcp_running, tcp_spawned, eof, env)
        return_code == IF result.ok THEN 0 ELSE 1
        given_up == ChildOfResult(result)
        ended == IF env.write = "error" /\ given_up # <<>>
                 THEN TerminateChild(given_up[1], result.running, env.term)
                 ELSE [ok |-> TRUE, error |-> "", running |-> result.running]
        terminated == result.terminated \/ (env.write = "error" /\ given_up # <<>>)
        goes_on == env.write = "ok" /\ result.ok
    IN  /\ result.spawned <= MaxSpawns
        /\ tcp_request' = command
        /\ tcp_running' = ended.running
        /\ tcp_spawned' = result.spawned
        /\ tcp_tcpdump' = IF goes_on THEN result.child ELSE <<>>
        /\ tcp_pc' = IF goes_on THEN "serving" ELSE "exited"
        /\ tcp_stream' = IF goes_on THEN tcp_stream ELSE "none"
        /\ tcp_last' = <<[command |-> command, eof |-> eof, before |-> tcp_tcpdump,
                          running_before |-> tcp_running, ok |-> result.ok,
                          error |-> result.error,
                          spawned |-> result.spawned > tcp_spawned,
                          code |-> IF env.write = "ok" THEN <<return_code>> ELSE <<>>,
                          term |-> IF terminated THEN env.term ELSE "none"]>>
        /\ UNCHANGED tcp_connections

OnlyTcpdump == <<aggVars, keyVars, dirVars, featVars, pcapVars, batchVars, parseVars, entropyVars, queueVars, svcVars, connVars>>

\* listener.incoming() gives a connection and main calls handle_connection
Accept ==
    /\ tcp_pc = "accept"
    /\ tcp_connections < MaxConnections
    /\ tcp_pc' = "serving"
    /\ tcp_stream' = "open"
    /\ tcp_request' = 0
    /\ tcp_connections' = tcp_connections + 1
    /\ tcp_last' = <<>>
    /\ UNCHANGED <<tcp_tcpdump, tcp_running, tcp_spawned>>
    /\ UNCHANGED OnlyTcpdump

\* The client sends a command byte and the turn runs
CommandTurn ==
    /\ tcp_pc = "serving" /\ tcp_stream = "open"
    /\ \E command \in Commands, env \in TurnEnvironments : Turn(command, FALSE, env)
    /\ UNCHANGED OnlyTcpdump

\* The client closes the connection
ClientClose ==
    /\ tcp_pc = "serving" /\ tcp_stream = "open"
    /\ tcp_stream' = "eof"
    /\ UNCHANGED <<tcp_pc, tcp_tcpdump, tcp_running, tcp_spawned, tcp_request,
                   tcp_connections, tcp_last>>
    /\ UNCHANGED OnlyTcpdump

\* At the end of the stream read returns Ok(0), which `while let Ok(_)`
\* takes for a command: the turn runs on the byte left in the buffer
EndOfStreamTurn ==
    /\ tcp_pc = "serving" /\ tcp_stream = "eof"
    /\ \E env \in TurnEnvironments : Turn(tcp_request, TRUE, env)
    /\ UNCHANGED OnlyTcpdump

\* read returns an error (the connection is reset): the loop ends,
\* handle_connection returns Ok(tcpdump) and main accepts again
ReadError ==
    /\ tcp_pc = "serving" /\ tcp_stream = "open"
    /\ tcp_pc' = "accept"
    /\ tcp_stream' = "none"
    /\ UNCHANGED <<tcp_tcpdump, tcp_running, tcp_spawned, tcp_request, tcp_connections,
                   tcp_last>>
    /\ UNCHANGED OnlyTcpdump

\* main after the socket is bound: no child, waiting for a connection
InitTcpdump ==
    /\ NoAggregator /\ NoKeyCall /\ NoDirectionCall /\ NoFeatures /\ NoCapture
    /\ NoBatch /\ NoParse /\ NoEntropyCall /\ NoQueue /\ NoService /\ NoConnLog
    /\ tcp_pc = "accept"
    /\ tcp_tcpdump = <<>>
    /\ tcp_running = {}
    /\ tcp_spawned = 0
    /\ tcp_request = 0
    /\ tcp_stream = "none"
    /\ tcp_connections = 0
    /\ tcp_last = <<>>

NextTcpdump == Accept \/ CommandTurn \/ ClientClose \/ EndOfStreamTurn \/ ReadError

SpecTcpdump == InitTcpdump /\ [][NextTcpdump]_vars

\* C33: a start command received while a child is running is answered
\* with the return code 0x01 and the daemon keeps serving commands and
\* connections.  Every error of handle_command ends the accept loop: this
\* statement is violated.
C33_StartWhileRunning ==
    (/\ tcp_last # <<>>
     /\ tcp_last[1].command = 0
     /\ ~tcp_last[1].eof
     /\ tcp_last[1].before # <<>>
     /\ tcp_last[1].error = "ExistingTcpdumpError"
     /\ tcp_last[1].code # <<>>)
    => /\ tcp_last[1].code = <<1>>
       /\ tcp_pc # "exited"

\* What C34 says of the commands, but for the stop command
OneChildOtherwise ==
    /\ Cardinality(tcp_running) <= 1
    /\ tcp_tcpdump # <<>> => tcp_running = {tcp_tcpdump[1]}
    /\ tcp_last # <<>> =>
          LET last == tcp_last[1]
          IN  /\ last.spawned =>
                    last.command = 0 /\ last.before = <<>> /\ last.running_before = {}
              /\ last.command \notin {0, 1, 2} =>
                    /\ last.ok
                    /\ last.code # <<>> =>
                          /\ last.code = <<0>>
                          /\ tcp_tcpdump = last.before
                          /\ tcp_running = last.running_before

C34_WitnessStop ==
    /\ tcp_pc = "serving"
    /\ tcp_last # <<>>
    /\ tcp_last[1].command = 1
    /\ tcp_last[1].before # <<>>
    /\ tcp_last[1].code = <<0>>
    /\ tcp_running = {}

\* C35: after the client has closed the connection no command is run for
\* it; handle_connection returns the child and main accepts again.  The
\* loop takes the Ok(0) of read for a command: this statement is violated.
C35_CloseEndsConnection ==
    /\ tcp_last # <<>> => ~tcp_last[1].eof
    /\ tcp_pc = "exited" => tcp_last # <<>> /\ ~tcp_last[1].eof

\* C36: when main has left the accept loop, and unless both signals to
\* the child failed, no child the controller spawned is running.
C36_NoChildLeft ==
    (/\ tcp_pc = "exited"
     /\ tcp_last[1].term # "kill")
    => tcp_running = {}

C36_Witness ==
    /\ tcp_pc = "exited"
    /\ tcp_last[1].ok
    /\ tcp_last[1].code = <<>>
    /\ tcp_last[1].before # <<>>
    /\ tcp_last[1].term = "ok"
    /\ tcp_spawned > 0
    /\ tcp_running = {}

(***************************************************************************)
(* The url_queue service                                                   *)
(* (data_collection/url_queue/url_queue/src/service.rs, capture.rs,        *)
(* shutdown.rs).                                                           *)
(*                                                                         *)
(* The handlers run on the threads of the runtime.  Of a request the model *)
(* keeps the step from the parsed body to the closure that runs under the  *)
(* mutex, which is one step because the guard is held throughout, and for  *)
(* /client/remove the step of the closure that follows it, which stores    *)
(* the shutdown flag after the guard has been dropped.  Requests that have *)
(* been parsed and have not yet taken their step are in svc_inflight, in   *)
(* any number up to MaxInflight, and take their steps in any order.  A     *)
(* poisoned mutex and a failing write to the report file are not modelled. *)
(***************************************************************************)
\* Most urls in the list read at start
MaxUrls == 1

\* Most requests in flight at a time
MaxInflight == 2

\* Most requests received
MaxRequests == 4

\* The work items of the urls read at start
UrlWorks(urls) == [index : 1..urls]

\* from_config: for every url entry, in order, one item of each work type
RECURSIVE WorkOfUrls(_)
WorkOfUrls(urls) ==
    IF urls = 0 THEN <<>>
    ELSE WorkOfUrls(urls - 1) \o <<<<"normal", [index |-> urls]>>, <<"tor", [index |-> urls]>>>>

\* The parsed bodies of the four requests
Request(kind, client_id, work_types, work_type, index, success) ==
    [kind |-> kind, client_id |-> client_id, work_types |-> work_types,
     work_type |-> work_type, index |-> index, success |-> success,
     phase |-> "parsed", num_clients |-> 0]

\* The preference lists the clients of the model send
WorkTypesSent == {<<"normal">>, <<"tor", "normal">>}

AddClientRequests == {Request("client_add", 0, work_types, "", 0, FALSE) : work_types \in WorkTypesSent}

RemoveClientRequests == {Request("client_remove", client_id, <<>>, "", 0, FALSE) : client_id \in 1..MaxClients}

WorkRequests == {Request("work_get", client_id, <<>>, "", 0, FALSE) : client_id \in 1..MaxClients}

WorkReportRequests ==
    {Request("work_report", 0, <<>>, work_type, index, success) :
        work_type \in CaptureWorkTypes, index \in 1..MaxUrls, success \in BOOLEAN}

Requests == AddClientRequests \cup RemoveClientRequests \cup WorkRequests \cup WorkReportRequests

\* A bag with one more, or one less, of an element
BagPut(bag, element) ==
    [e \in DOMAIN bag \cup {element} |->
        IF e = element THEN (IF e \in DOMAIN bag THEN bag[e] + 1 ELSE 1) ELSE bag[e]]

BagTake(bag, element) ==
    [e \in {d \in DOMAIN bag : d # element \/ bag[d] > 1} |->
        IF e = element THEN bag[e] - 1 ELSE bag[e]]

BagCount(bag, element) == IF element \in DOMAIN bag THEN bag[element] ELSE 0

RECURSIVE BagSize(_, _)
BagSize(bag, elements) ==
    IF elements = {} THEN 0
    ELSE LET e == CHOOSE x \in elements : TRUE
         IN  bag[e] + BagSize(bag, elements \ {e})

\* The test of work_report, taken as true whatever the report says
ReportedSuccessAlways(request) == TRUE

\* if request.success
ReportedSuccess(request) == request.success

\* The line of the report file: the request as JSON
ReportLine(request) ==
    [work_type |-> request.work_type, work |-> [index |-> request.index],
     success |-> request.success]

OnlyService == <<aggVars, keyVars, dirVars, featVars, pcapVars, batchVars, parseVars, entropyVars, tcpVars, connVars, wq_request, wq_response, wq_before>>

\* A request arrives and its body is parsed
Receive ==
    /\ svc_served < MaxRequests
    /\ BagSize(svc_inflight, DOMAIN svc_inflight) < MaxInflight
    /\ \E request \in Requests : svc_inflight' = BagPut(svc_inflight, request)
    /\ svc_served' = svc_served + 1
    /\ UNCHANGED <<wq_work, wq_clients, wq_cur_client_id, svc_urls, svc_report,
                   svc_shutdown, svc_handed, svc_requeued, svc_last>>
    /\ UNCHANGED OnlyService

\* client_add: add_client under the mutex
ClientAdd ==
    /\ wq_cur_client_id < MaxClients
    /\ \E request \in DOMAIN svc_inflight :
          /\ request.kind = "client_add"
          /\ wq_cur_client_id' = wq_cur_client_id + 1
          /\ wq_clients' = [id \in DOMAIN wq_clients \cup {wq_cur_client_id + 1} |->
                               IF id = wq_cur_client_id + 1 THEN request.work_types
                               ELSE wq_clients[id]]
          /\ svc_inflight' = BagTake(svc_inflight, request)
    /\ svc_last' = <<>>
    /\ UNCHANGED <<wq_work, svc_urls, svc_served, svc_report, svc_shutdown, svc_handed,
                   svc_requeued>>
    /\ UNCHANGED OnlyService

\* client_remove: remove_client and num_clients under the mutex
ClientRemove ==
    /\ \E request \in DOMAIN svc_inflight :
          /\ request.kind = "client_remove" /\ request.phase = "parsed"
          /\ wq_clients' = [id \in DOMAIN wq_clients \ {request.client_id} |-> wq_clients[id]]
          /\ svc_inflight' =
                BagPut(BagTake(svc_inflight, request),
                       [request EXCEPT !.phase = IF request.client_id \in DOMAIN wq_clients
                                                  THEN "removed" ELSE "not_removed",
                                       !.num_clients = Cardinality(DOMAIN wq_clients
                                                                   \ {request.client_id})])
    /\ svc_last' = <<>>
    /\ UNCHANGED <<wq_work, wq_cur_client_id, svc_urls, svc_served, svc_report,
                   svc_shutdown, svc_handed, svc_requeued>>
    /\ UNCHANGED OnlyService

\* client_remove: the closure after the mutex, which stores the flag.  The
\* flag keeps what was the case at the store that set it.
ClientRemoveShutdown ==
    /\ \E request \in DOMAIN svc_inflight :
          /\ request.kind = "client_remove" /\ request.phase # "parsed"
          /\ svc_shutdown' =
                IF request.num_clients = 0 /\ svc_shutdown = <<>>
                THEN <<[removed |-> request.phase = "removed",
                        registered |-> Cardinality(DOMAIN wq_clients),
                        cur_client_id |-> wq_cur_client_id]>>
                ELSE svc_shutdown
          /\ svc_inflight' = BagTake(svc_inflight, request)
    /\ UNCHANGED <<wq_work, wq_clients, wq_cur_client_id, svc_urls, svc_served,
                   svc_report, svc_handed, svc_requeued, svc_last>>
    /\ UNCHANGED OnlyService

\* work_get: request_work under the mutex
WorkGet ==
    /\ \E request \in DOMAIN svc_inflight :
          /\ request.kind = "work_get"
          /\ \E got \in RequestWork(wq_work, wq_clients, request.client_id) :
                /\ wq_work' = got.work
                /\ svc_handed' = IF got.response = <<>> THEN svc_handed
                                 ELSE BagPut(svc_handed, got.response[1])
          /\ svc_inflight' = BagTake(svc_inflight, request)
    /\ svc_last' = <<>>
    /\ UNCHANGED <<wq_clients, wq_cur_client_id, svc_urls, svc_served, svc_report,
                   svc_shutdown, svc_requeued>>
    /\ UNCHANGED OnlyService

\* work_report: the line written under the mutex of the report file, or
\* add_work under the mutex of the queue
WorkReport ==
    /\ \E request \in DOMAIN svc_inflight :
          /\ request.kind = "work_report"
          /\ IF ReportedSuccess(request)
             THEN /\ svc_report' = Append(svc_report, ReportLine(request))
                  /\ UNCHANGED <<wq_work, svc_requeued>>
             ELSE /\ wq_work' = PushWork(wq_work, request.work_type, [index |-> request.index])
                  /\ svc_requeued' = BagPut(svc_requeued, [work_type |-> request.work_type,
                                                            work |-> [index |-> request.index]])
                  /\ UNCHANGED svc_report
          /\ svc_inflight' = BagTake(svc_inflight, request)
          /\ svc_last' = <<[request |-> request, work |-> wq_work, report |-> svc_report]>>
    /\ UNCHANGED <<wq_clients, wq_cur_client_id, svc_urls, svc_served, svc_shutdown,
                   svc_handed>>
    /\ UNCHANGED OnlyService

\* WorkQueueService::from_config and new: the queue of the urls read, no
\* client, an empty report file, the flag false
InitService ==
    /\ NoAggregator /\ NoKeyCall /\ NoDirectionCall /\ NoFeatures /\ NoCapture
    /\ NoBatch /\ NoParse /\ NoEntropyCall /\ NoTcpdump /\ NoConnLog
    /\ svc_urls \in 0..MaxUrls
    /\ wq_work = FromIter(WorkOfUrls(svc_urls))
    /\ wq_clients = <<>>
    /\ wq_cur_client_id = 0
    /\ wq_request = 0
    /\ wq_response = <<>>
    /\ wq_before = <<>>
    /\ svc_inflight = <<>>
    /\ svc_served = 0
    /\ svc_report = <<>>
    /\ svc_shutdown = <<>>
    /\ svc_handed = <<>>
    /\ svc_requeued = <<>>
    /\ svc_last = <<>>

NextService == Receive \/ ClientAdd \/ ClientRemove \/ ClientRemoveShutdown \/ WorkGet \/ WorkReport

SpecService == InitService /\ [][NextService]_vars

\* How often an item is in the queue of its work type
Queued(work_type, work_item) ==
    IF work_type \in DOMAIN wq_work
    THEN Len(SelectSeq(wq_work[work_type], LAMBDA queued : queued = work_item))
    ELSE 0

\* How often from_config put an item in the queue
QueuedAtStart(work_item) == IF work_item.index <= svc_urls THEN 1 ELSE 0

\* C37: whatever the order in which the requests in flight take their
\* steps, an item has been handed out at most once more than it has been
\* put back by a failure report; what has been handed out and what is
\* queued add up to what was queued at the start and what was put back.
C37_HandedToOne ==
    \A work_type \in CaptureWorkTypes, work_item \in UrlWorks(MaxUrls) :
       LET handed == BagCount(svc_handed, [work_type |-> work_type, work |-> work_item])
           requeued == BagCount(svc_requeued, [work_type |-> work_type, work |-> work_item])
       IN  /\ handed <= QueuedAtStart(work_item) + requeued
           /\ handed + Queued(work_type, work_item) = QueuedAtStart(work_item) + requeued

C37_Witness ==
    \E item \in DOMAIN svc_handed :
       /\ svc_handed[item] = 2
       /\ BagCount(svc_requeued, item) = 1
       /\ Queued(item.work_type, item.work) = 0

\* C38: a report with success == false leaves the report file as it was
\* and puts the item into the queue of its work type; a report with
\* success == true appends one line, the report, to the file and leaves
\* the queue as it was; no line of the file has success == false.
C38_FailureRequeued ==
    /\ \A i \in DOMAIN svc_report : svc_report[i].success
    /\ svc_last # <<>> =>
          LET request == svc_last[1].request
          IN  IF request.success
              THEN /\ svc_report = Append(svc_last[1].report, ReportLine(request))
                   /\ wq_work = svc_last[1].work
              ELSE /\ svc_report = svc_last[1].report
                   /\ wq_work = PushWork(svc_last[1].work, request.work_type,
                                         [index |-> request.index])
                   /\ Queued(request.work_type, [index |-> request.index]) > 0

C38_Witness ==
    /\ svc_last # <<>>
    /\ ~svc_last[1].request.success
    /\ svc_report # <<>>
    /\ BagCount(svc_handed, [work_type |-> svc_last[1].request.work_type,
                             work |-> [index |-> svc_last[1].request.index]]) = 1

C38_WitnessSuccess ==
    /\ svc_last # <<>>
    /\ svc_last[1].request.success
    /\ Len(svc_report) = 2

\* C39: the shutdown flag is set by a /client/remove that removed a
\* registered client and left none, at a time when no client is
\* registered.  remove_client takes any id, and the flag is stored after
\* the mutex has been given up: this statement is violated.
C39_ShutdownOnLastClient ==
    svc_shutdown # <<>> =>
       /\ svc_shutdown[1].removed
       /\ svc_shutdown[1].registered = 0
       /\ svc_shutdown[1].cur_client_id > 0

(***************************************************************************)
(* The connection log in FlowData::load                                    *)
(* (data_generator/src/dataset.rs, bro_types.rs, flow_aggregator.rs).      *)
(*                                                                         *)
(* load_connections opens conn.log and returns an iterator over its        *)
(* lines; nothing is read until the iterator is consumed, which            *)
(* FlowAggregator::new does.  Between the two FlowData::load closes the    *)
(* scratch directory and loads the packets.  A line is read from the open  *)
(* file whether or not its directory entry is still there, as on Unix;     *)
(* every read is kept with the state of the directory at the time.         *)
(***************************************************************************)
\* Most lines of a conn.log
MaxConnLines == 3

\* A line of conn.log: a connection with port 443, another connection,
\* text that is no JSON record
ConnLines == {"https", "other", "garbage"}

ConnLogs == UNION {[1..n -> ConnLines] : n \in 0..MaxConnLines}

OnlyConnLog == <<aggVars, keyVars, dirVars, featVars, pcapVars, batchVars, parseVars, entropyVars, queueVars, tcpVars, svcVars>>

\* Connection::load_connections: File::open, and the iterator built over
\* the reader; an error returns from FlowData::load and drops the TempDir
LoadConnections ==
    /\ conn_pc = "analyzed"
    /\ \/ conn_pc' = "opened" /\ UNCHANGED scratch_dir
       \/ conn_pc' = "failed" /\ scratch_dir' = "removed"
    /\ UNCHANGED <<conn_log, conn_reads>>
    /\ UNCHANGED OnlyConnLog

\* scratch_dir.close()?
CloseScratchDir ==
    /\ conn_pc = "opened"
    /\ \/ conn_pc' = "closed" /\ scratch_dir' = "removed"
       \/ conn_pc' = "failed" /\ UNCHANGED scratch_dir
    /\ UNCHANGED <<conn_log, conn_reads>>
    /\ UNCHANGED OnlyConnLog

\* Packet::load_from_pcap(&pcap_path)? and the collect of the packets
LoadFromPcap ==
    /\ conn_pc = "closed"
    /\ conn_pc' \in {"packets", "failed"}
    /\ UNCHANGED <<conn_log, scratch_dir, conn_reads>>
    /\ UNCHANGED OnlyConnLog

\* FlowAggregator::new takes the next connection: the reader reads a line
ReadLine ==
    /\ conn_pc = "packets"
    /\ Len(conn_reads) < Len(conn_log)
    /\ conn_reads' = Append(conn_reads, [line |-> conn_log[Len(conn_reads) + 1],
                                         scratch_dir |-> scratch_dir])
    /\ UNCHANGED <<conn_log, conn_pc, scratch_dir>>
    /\ UNCHANGED OnlyConnLog

\* The end of the file: into_group_map returns the connection map
EndOfLog ==
    /\ conn_pc = "packets"
    /\ Len(conn_reads) = Len(conn_log)
    /\ conn_pc' = "aggregated"
    /\ UNCHANGED <<conn_log, scratch_dir, conn_reads>>
    /\ UNCHANGED OnlyConnLog

\* FlowData::load after the analyzer has exited with success and left
\* conn.log in the scratch directory
InitConnLog ==
    /\ NoAggregator /\ NoKeyCall /\ NoDirectionCall /\ NoFeatures /\ NoCapture
    /\ NoBatch /\ NoParse /\ NoEntropyCall /\ NoQueue /\ NoTcpdump /\ NoService
    /\ conn_log \in ConnLogs
    /\ conn_pc = "analyzed"
    /\ scratch_dir = "exists"
    /\ conn_reads = <<>>

NextConnLog == LoadConnections \/ CloseScratchDir \/ LoadFromPcap \/ ReadLine \/ EndOfLog

SpecConnLog == InitConnLog /\ [][NextConnLog]_vars

\* C40: every line of conn.log is read while the scratch directory is
\* there.  The lines are read by FlowAggregator::new, after the directory
\* has been closed: this statement is violated.
C40_ReadBeforeRemoval ==
    \A i \in DOMAIN conn_reads : conn_reads[i].scratch_dir = "exists"

====
